---- MODULE Spec2Model ----
(***************************************************************************)
(* Offer-claiming admission control over a shared counter store.           *)
(*                                                                         *)
(* The store is a map from keys to counter cells (value, expiry).  Each    *)
(* client program of the repository (v4, batch_locust, multi_node_locust,  *)
(* ...) is modelled by the store calls its claim loop issues for one       *)
(* candidate offer.  A server-side script is one atomic step; separate     *)
(* client round trips are separate steps.                                  *)
(*                                                                         *)
(* The specifications of this module cover the period in which no stored   *)
(* expiry instant has elapsed: EXPIREAT records the instant on the cell,   *)
(* the store's clock is not part of the state.                             *)
(***************************************************************************)
EXTENDS Integers, Sequences, FiniteSets, TLC

VARIABLES program, store, today, outcomes, last, claims, proc

vars == <<program, store, today, outcomes, last, claims, proc>>

(***************************************************************************)
(* Bounds of the model.                                                    *)
(***************************************************************************)
MaxDay == 2
MaxClaims == 3

Users == {"u1", "u2", "u3"}
\* the clients of the specifications that follow two clients
TwoClients == {"u1", "u2"}
Days == 1..MaxDay

(***************************************************************************)
(* Offer catalog (OFFER_CONFIGS): offer id -> type and caps.  A missing    *)
(* user_cap is read with the default 1 by config.get("user_cap", 1).       *)
(***************************************************************************)
NoCap == 0

OFFER_CONFIGS ==
  [oB |-> [type |-> "BOTH", global_cap |-> 2, user_cap |-> 1],
   oG |-> [type |-> "GLOBAL_ONLY", global_cap |-> 2, user_cap |-> NoCap],
   oU |-> [type |-> "USER_ONLY", global_cap |-> NoCap, user_cap |-> 2]]

ALL_OFFER_IDS == DOMAIN OFFER_CONFIGS

\* config.get("user_cap", 1)
UserCapOrDefault(config) ==
  IF config.user_cap = NoCap THEN 1 ELSE config.user_cap

(***************************************************************************)
(* Key scheme.  A key is the sequence of its ':'-separated segments; a     *)
(* segment written in braces in the f-string is a hash tag.                *)
(***************************************************************************)
Lit(s) == [tag |-> FALSE, s |-> s]
Tag(s) == [tag |-> TRUE, s |-> s]

DateStr(day) == ToString(day)

\* f"offer:{{{offer_id}}}:count:{current_date_str}"
GlobalKeyTagged(offer_id, day) ==
  <<Lit("offer"), Tag(offer_id), Lit("count"), Lit(DateStr(day))>>

\* f"user_offer:{{{offer_id}}}:count:{user_id}:{current_date_str}"
UserKeyTagged(offer_id, user_id, day) ==
  <<Lit("user_offer"), Tag(offer_id), Lit("count"), Lit(user_id), Lit(DateStr(day))>>

\* f"offer:{offer_id}:{current_date_str}"
GlobalKeyPlain(offer_id, day) ==
  <<Lit("offer"), Lit(offer_id), Lit(DateStr(day))>>

\* f"user_offer:{{{user_id}}}:{offer_id}:{current_date_str}"
UserKeyUserTagged(user_id, offer_id, day) ==
  <<Lit("user_offer"), Tag(user_id), Lit(offer_id), Lit(DateStr(day))>>

\* f"offer:{{{offer_id}}}:{current_date_str}"
GlobalKeyOfferTagged(offer_id, day) ==
  <<Lit("offer"), Tag(offer_id), Lit(DateStr(day))>>

\* the user key of one_node_locust with the braces around the user id
UserKeyOfferTagged_TagOnUser(offer_id, user_id, day) ==
  <<Lit("user_offer"), Lit(offer_id), Tag(user_id), Lit(DateStr(day))>>

\* f"user_offer:{{{offer_id}}}:{user_id}:{current_date_str}"
UserKeyOfferTagged(offer_id, user_id, day) ==
  <<Lit("user_offer"), Tag(offer_id), Lit(user_id), Lit(DateStr(day))>>

(***************************************************************************)
(* Expiry instants, in half hours since day 0, 00:00.                      *)
(***************************************************************************)
TicksPerHour == 2
TicksPerDay == 24 * TicksPerHour

\* (now + timedelta(days=1)).replace(hour=h, minute=0, second=0)
NextDayAt(day, hour) == TicksPerDay * (day + 1) + TicksPerHour * hour

\* self.expire_at_timestamp, computed once in on_start on day start_day
OnStartExpireAt(start_day) == NextDayAt(start_day, 1)

\* days on which a client that claims on day d may have run on_start: the
\* day itself or the day before (the first clients start on day 1)
StartDays(d) == {sd \in {d - 1, d} : sd >= 1}

\* UTC dates on which the local date can be d: the same date, or the date
\* before it for a zone ahead of UTC (the calendar starts on day 1)
UtcDays(d) == {ud \in {d - 1, d} : ud >= 1}

\* get_next_day_midnight_timestamp(): 00:00:00 UTC of the next UTC day
get_next_day_midnight_timestamp(utc_day) == NextDayAt(utc_day, 0)

\* random.randint(0, 1800) seconds, at the model's resolution of half an hour
RandomSeconds == {0, 1}

\* get_random_next_day_timestamp(): up to 30 minutes after that midnight
get_random_next_day_timestamp(utc_day, random_second) ==
  NextDayAt(utc_day, 0) + random_second

(***************************************************************************)
(* Store commands, as functions from a store to a store.                   *)
(***************************************************************************)
NoExpiry == 0
Nil == <<>>

\* redis.call('GET', key): nil when the key is absent
GET(s, key) == IF key \in DOMAIN s THEN <<s[key].val>> ELSE Nil

\* tonumber(reply or 0)
OrZero(reply) == IF reply = Nil THEN 0 ELSE reply[1]

ValueOf(s, key) == OrZero(GET(s, key))

ExpiryOf(s, key) == IF key \in DOMAIN s THEN s[key].exp ELSE NoExpiry

\* redis.call('INCR', key): creates the key at 1, keeps the expiry
INCR(s, key) ==
  [k \in DOMAIN s \cup {key} |->
     IF k = key
       THEN [val |-> ValueOf(s, key) + 1, exp |-> ExpiryOf(s, key)]
       ELSE s[k]]

\* redis.call('DECR', key): creates the key at -1, keeps the expiry
DECR(s, key) ==
  [k \in DOMAIN s \cup {key} |->
     IF k = key
       THEN [val |-> ValueOf(s, key) - 1, exp |-> ExpiryOf(s, key)]
       ELSE s[k]]

\* redis.call('EXPIREAT', key, ts): no effect on an absent key
EXPIREAT(s, key, ts) ==
  IF key \in DOMAIN s
    THEN [s EXCEPT ![key] = [val |-> s[key].val, exp |-> ts]]
    ELSE s

Reply(s, ret) == [store |-> s, ret |-> ret]

(***************************************************************************)
(* Check-then-increment scripts (v4.py, batch_locust.py).                  *)
(***************************************************************************)
\* ATOMIC_CLAIM_BOTH_LUA with the global check off by one (<= for <)
ATOMIC_CLAIM_BOTH_LUA_OffByOne(s, KEYS, ARGV) ==
  LET global_key == KEYS[1]
      user_key == KEYS[2]
      global_count == OrZero(GET(s, global_key))
      user_count == OrZero(GET(s, user_key))
  IN IF global_count <= ARGV[1]
       THEN IF user_count < ARGV[2]
              THEN LET s1 == INCR(s, global_key)
                       s2 == INCR(s1, user_key)
                       s3 == IF s1[global_key].val = 1
                               THEN EXPIREAT(s2, global_key, ARGV[3]) ELSE s2
                       s4 == IF s2[user_key].val = 1
                               THEN EXPIREAT(s3, user_key, ARGV[3]) ELSE s3
                   IN Reply(s4, "SUCCESS")
              ELSE Reply(s, "FAIL_USER_CAP_MET")
       ELSE Reply(s, "FAIL_GLOBAL_CAP_MET")

\* ATOMIC_CLAIM_BOTH_LUA with the second INCR on the global key again
ATOMIC_CLAIM_BOTH_LUA_IncrGlobalTwice(s, KEYS, ARGV) ==
  LET global_key == KEYS[1]
      user_key == KEYS[2]
      global_count == OrZero(GET(s, global_key))
      user_count == OrZero(GET(s, user_key))
  IN IF global_count < ARGV[1]
       THEN IF user_count < ARGV[2]
              THEN LET s1 == INCR(s, global_key)
                       s2 == INCR(s1, global_key)
                       s3 == IF s1[global_key].val = 1
                               THEN EXPIREAT(s2, global_key, ARGV[3]) ELSE s2
                   IN Reply(s3, "SUCCESS")
              ELSE Reply(s, "FAIL_USER_CAP_MET")
       ELSE Reply(s, "FAIL_GLOBAL_CAP_MET")

\* ATOMIC_CLAIM_BOTH_LUA without the INCR of the user key
ATOMIC_CLAIM_BOTH_LUA_NoUserIncr(s, KEYS, ARGV) ==
  LET global_key == KEYS[1]
      user_key == KEYS[2]
      global_count == OrZero(GET(s, global_key))
      user_count == OrZero(GET(s, user_key))
  IN IF global_count < ARGV[1]
       THEN IF user_count < ARGV[2]
              THEN LET s1 == INCR(s, global_key)
                       s3 == IF s1[global_key].val = 1
                               THEN EXPIREAT(s1, global_key, ARGV[3]) ELSE s1
                   IN Reply(s3, "SUCCESS")
              ELSE Reply(s, "FAIL_USER_CAP_MET")
       ELSE Reply(s, "FAIL_GLOBAL_CAP_MET")

\* ATOMIC_CLAIM_BOTH_LUA with the user cap checked before the global cap
ATOMIC_CLAIM_BOTH_LUA_UserFirst(s, KEYS, ARGV) ==
  LET global_key == KEYS[1]
      user_key == KEYS[2]
      global_count == OrZero(GET(s, global_key))
      user_count == OrZero(GET(s, user_key))
  IN IF user_count < ARGV[2]
       THEN IF global_count < ARGV[1]
              THEN LET s1 == INCR(s, global_key)
                       s2 == INCR(s1, user_key)
                       s3 == IF s1[global_key].val = 1
                               THEN EXPIREAT(s2, global_key, ARGV[3]) ELSE s2
                       s4 == IF s2[user_key].val = 1
                               THEN EXPIREAT(s3, user_key, ARGV[3]) ELSE s3
                   IN Reply(s4, "SUCCESS")
              ELSE Reply(s, "FAIL_GLOBAL_CAP_MET")
       ELSE Reply(s, "FAIL_USER_CAP_MET")

ATOMIC_CLAIM_BOTH_LUA(s, KEYS, ARGV) ==
  LET global_key == KEYS[1]
      user_key == KEYS[2]
      global_cap == ARGV[1]
      user_cap == ARGV[2]
      expire_at == ARGV[3]
      global_count == OrZero(GET(s, global_key))
  IN IF global_count < global_cap
       THEN LET user_count == OrZero(GET(s, user_key))
            IN IF user_count < user_cap
                 THEN LET s1 == INCR(s, global_key)
                          new_global_val == s1[global_key].val
                          s2 == INCR(s1, user_key)
                          new_user_val == s2[user_key].val
                          s3 == IF new_global_val = 1
                                  THEN EXPIREAT(s2, global_key, expire_at)
                                  ELSE s2
                          s4 == IF new_user_val = 1
                                  THEN EXPIREAT(s3, user_key, expire_at)
                                  ELSE s3
                      IN Reply(s4, "SUCCESS")
                 ELSE Reply(s, "FAIL_USER_CAP_MET")
       ELSE Reply(s, "FAIL_GLOBAL_CAP_MET")

ATOMIC_CLAIM_SINGLE_KEY_LUA(s, KEYS, ARGV) ==
  LET key == KEYS[1]
      cap == ARGV[1]
      expire_at == ARGV[2]
  IN IF OrZero(GET(s, key)) < cap
       THEN LET s1 == INCR(s, key)
                s2 == IF s1[key].val = 1 THEN EXPIREAT(s1, key, expire_at) ELSE s1
            IN Reply(s2, "SUCCESS")
       ELSE Reply(s, "FAIL_CAP_MET")

(***************************************************************************)
(* Bookkeeping of the model: the outcome of every claim, per (user, offer, *)
(* day), and the last script call with its reply.                          *)
(***************************************************************************)
Cell(user_id, offer_id, day) == <<user_id, offer_id, day>>

OutcomesOf(user_id, offer_id, day) ==
  IF Cell(user_id, offer_id, day) \in DOMAIN outcomes
    THEN outcomes[Cell(user_id, offer_id, day)]
    ELSE <<>>

Record(user_id, offer_id, day, ret) ==
  [c \in DOMAIN outcomes \cup {Cell(user_id, offer_id, day)} |->
     IF c = Cell(user_id, offer_id, day)
       THEN Append(OutcomesOf(user_id, offer_id, day), ret)
       ELSE outcomes[c]]

\* a client that is between two claims
Idle == [pc |-> "idle"]

\* the model follows at most MaxClaims claims
MayClaim == claims < MaxClaims

NoCall == [script |-> "none", keys |-> <<>>, argv |-> <<>>, ret |-> "none"]

Call(script, keys, argv, ret) ==
  [script |-> script, keys |-> keys, argv |-> argv, ret |-> ret]

\* the keys of a call
KeysOf(call) == {call.keys[i] : i \in 1..Len(call.keys)}

RECURSIVE CountOf(_, _)
CountOf(seq, x) ==
  IF seq = <<>> THEN 0
  ELSE (IF Head(seq) = x THEN 1 ELSE 0) + CountOf(Tail(seq), x)

\* SUCCESS outcomes of one user for an offer on a day
UserGrants(user_id, offer_id, day) ==
  CountOf(OutcomesOf(user_id, offer_id, day), "SUCCESS")

RECURSIVE SumOver(_)
SumOver(cells) ==
  IF cells = {} THEN 0
  ELSE LET c == CHOOSE x \in cells : TRUE
       IN CountOf(outcomes[c], "SUCCESS") + SumOver(cells \ {c})

\* SUCCESS outcomes of all users for an offer on a day
OfferGrants(offer_id, day) ==
  SumOver({c \in DOMAIN outcomes : c[2] = offer_id /\ c[3] = day})

(***************************************************************************)
(* Environment: the calendar day changes.                                  *)
(***************************************************************************)
Midnight ==
  /\ today < MaxDay
  /\ today' = today + 1
  /\ UNCHANGED <<program, store, outcomes, last, claims, proc>>

\* One script call of the loop body for (user_id, offer_id): the script's
\* effect on the store, the outcome seen by the loop, the call itself.
ScriptStep(user_id, offer_id, name, keys, argv, r) ==
  /\ store' = r.store
  /\ outcomes' = Record(user_id, offer_id, today, r.ret)
  /\ last' = Call(name, keys, argv, r.ret)
  /\ claims' = claims + 1
  /\ UNCHANGED <<program, today, proc>>

\* A loop body that issues no store call for the offer (was_granted stays
\* False).
NoStoreCall(user_id, offer_id) ==
  /\ outcomes' = Record(user_id, offer_id, today, "NOT_CLAIMED")
  /\ last' = NoCall
  /\ claims' = claims + 1
  /\ UNCHANGED <<program, store, today, proc>>

(***************************************************************************)
(* v4._claim_offers_optimal_cluster / batch_locust._claim_offers_in_batch: *)
(* the loop body for one candidate offer.  Only the BOTH branch is live,   *)
(* the GLOBAL_ONLY and USER_ONLY branches are commented out.               *)
(***************************************************************************)
ClaimCheckThenIncr(user_id, offer_id, start_day) ==
  /\ program = "v4"
  /\ MayClaim
  /\ LET config == OFFER_CONFIGS[offer_id]
         offer_type == config.type
         global_key == GlobalKeyTagged(offer_id, today)
         user_key == UserKeyTagged(offer_id, user_id, today)
         global_cap == config.global_cap
         user_cap == UserCapOrDefault(config)
         argv == <<global_cap, user_cap, OnStartExpireAt(start_day)>>
     IN IF offer_type = "BOTH"
          THEN ScriptStep(user_id, offer_id, "both", <<global_key, user_key>>, argv,
                          ATOMIC_CLAIM_BOTH_LUA(store, <<global_key, user_key>>, argv))
          ELSE NoStoreCall(user_id, offer_id)

(***************************************************************************)
(* The registered single-key script of v4 / batch_locust, applied to a     *)
(* key, a cap and an expiry instant.                                       *)
(***************************************************************************)
SingleKeyCaps == 1..2

EvalSingleKey(user_id, offer_id, cap, start_day) ==
  /\ program = "single_key"
  /\ MayClaim
  /\ OFFER_CONFIGS[offer_id].type # "BOTH"
  /\ LET key == IF OFFER_CONFIGS[offer_id].type = "GLOBAL_ONLY"
                  THEN GlobalKeyTagged(offer_id, today)
                  ELSE UserKeyTagged(offer_id, user_id, today)
         argv == <<cap, OnStartExpireAt(start_day)>>
     IN ScriptStep(user_id, offer_id, "single", <<key>>, argv,
                   ATOMIC_CLAIM_SINGLE_KEY_LUA(store, <<key>>, argv))

(***************************************************************************)
(* Increment-then-check scripts (multi_node_locust.py, one_node_locust.py) *)
(***************************************************************************)
\* ATOMIC_INCR_THEN_CHECK_BOTH_LUA without the DECR of the global key on a
\* global denial
ATOMIC_INCR_THEN_CHECK_BOTH_LUA_NoGlobalDecr(s, KEYS, ARGV) ==
  LET g == KEYS[1]
      u == KEYS[2]
      s1 == INCR(s, u)
      nu == s1[u].val
  IN IF nu <= ARGV[2]
       THEN LET s2 == INCR(s1, g)
                ng == s2[g].val
            IN IF ng <= ARGV[1]
                 THEN LET s3 == IF nu = 1 THEN EXPIREAT(s2, u, ARGV[3]) ELSE s2
                          s4 == IF ng = 1 THEN EXPIREAT(s3, g, ARGV[3]) ELSE s3
                      IN Reply(s4, "SUCCESS")
                 ELSE Reply(DECR(s2, u), "FAIL_GLOBAL_CAP_MET")
       ELSE Reply(DECR(s1, u), "FAIL_USER_CAP_MET")

\* ATOMIC_INCR_THEN_CHECK_BOTH_LUA without the DECR of the user key on a
\* global denial
ATOMIC_INCR_THEN_CHECK_BOTH_LUA_NoUserDecr(s, KEYS, ARGV) ==
  LET g == KEYS[1]
      u == KEYS[2]
      s1 == INCR(s, u)
      nu == s1[u].val
  IN IF nu <= ARGV[2]
       THEN LET s2 == INCR(s1, g)
                ng == s2[g].val
            IN IF ng <= ARGV[1]
                 THEN LET s3 == IF nu = 1 THEN EXPIREAT(s2, u, ARGV[3]) ELSE s2
                          s4 == IF ng = 1 THEN EXPIREAT(s3, g, ARGV[3]) ELSE s3
                      IN Reply(s4, "SUCCESS")
                 ELSE Reply(DECR(s2, g), "FAIL_GLOBAL_CAP_MET")
       ELSE Reply(DECR(s1, u), "FAIL_USER_CAP_MET")

\* ATOMIC_INCR_THEN_CHECK_BOTH_LUA with the user cap compared to the count
\* after the INCR as if it were the count before it (< for <=)
ATOMIC_INCR_THEN_CHECK_BOTH_LUA_StrictUserCap(s, KEYS, ARGV) ==
  LET g == KEYS[1]
      u == KEYS[2]
      gc == ARGV[1]
      uc == ARGV[2]
      ex == ARGV[3]
      s1 == INCR(s, u)
      nu == s1[u].val
  IN IF nu < uc
       THEN LET s2 == INCR(s1, g)
                ng == s2[g].val
            IN IF ng <= gc
                 THEN LET s3 == IF nu = 1 THEN EXPIREAT(s2, u, ex) ELSE s2
                          s4 == IF ng = 1 THEN EXPIREAT(s3, g, ex) ELSE s3
                      IN Reply(s4, "SUCCESS")
                 ELSE Reply(DECR(DECR(s2, g), u), "FAIL_GLOBAL_CAP_MET")
       ELSE Reply(DECR(s1, u), "FAIL_USER_CAP_MET")

ATOMIC_INCR_THEN_CHECK_BOTH_LUA(s, KEYS, ARGV) ==
  LET g == KEYS[1]
      u == KEYS[2]
      gc == ARGV[1]
      uc == ARGV[2]
      ex == ARGV[3]
      s1 == INCR(s, u)
      nu == s1[u].val
  IN IF nu <= uc
       THEN LET s2 == INCR(s1, g)
                ng == s2[g].val
            IN IF ng <= gc
                 THEN LET s3 == IF nu = 1 THEN EXPIREAT(s2, u, ex) ELSE s2
                          s4 == IF ng = 1 THEN EXPIREAT(s3, g, ex) ELSE s3
                      IN Reply(s4, "SUCCESS")
                 ELSE Reply(DECR(DECR(s2, g), u), "FAIL_GLOBAL_CAP_MET")
       ELSE Reply(DECR(s1, u), "FAIL_USER_CAP_MET")

ATOMIC_INCR_THEN_CHECK_SINGLE_LUA(s, KEYS, ARGV) ==
  LET k == KEYS[1]
      c == ARGV[1]
      ex == ARGV[2]
      s1 == INCR(s, k)
      n == s1[k].val
  IN IF n <= c
       THEN Reply(IF n = 1 THEN EXPIREAT(s1, k, ex) ELSE s1, "SUCCESS")
       ELSE Reply(DECR(s1, k), "FAIL_CAP_MET")

\* multi_node_locust._claim_offers_in_batch: the loop body for one offer
ClaimIncrThenCheck_UserOnlyOnGlobalKey(user_id, offer_id, start_day) ==
  /\ program = "multi_node_locust"
  /\ MayClaim
  /\ LET config == OFFER_CONFIGS[offer_id]
         offer_type == config.type
         global_key == GlobalKeyTagged(offer_id, today)
         user_key == UserKeyTagged(offer_id, user_id, today)
         ex == OnStartExpireAt(start_day)
     IN CASE offer_type = "GLOBAL_ONLY" ->
               LET argv == <<config.global_cap, ex>>
               IN ScriptStep(user_id, offer_id, "single", <<global_key>>, argv,
                             ATOMIC_INCR_THEN_CHECK_SINGLE_LUA(store, <<global_key>>, argv))
          [] offer_type = "USER_ONLY" ->
               LET argv == <<UserCapOrDefault(config), ex>>
               IN ScriptStep(user_id, offer_id, "single", <<global_key>>, argv,
                             ATOMIC_INCR_THEN_CHECK_SINGLE_LUA(store, <<global_key>>, argv))
          [] offer_type = "BOTH" ->
               LET argv == <<config.global_cap, UserCapOrDefault(config), ex>>
               IN ScriptStep(user_id, offer_id, "both", <<global_key, user_key>>, argv,
                             ATOMIC_INCR_THEN_CHECK_BOTH_LUA(store, <<global_key, user_key>>, argv))

ClaimIncrThenCheck(user_id, offer_id, start_day) ==
  /\ program = "multi_node_locust"
  /\ MayClaim
  /\ LET config == OFFER_CONFIGS[offer_id]
         offer_type == config.type
         global_key == GlobalKeyTagged(offer_id, today)
         user_key == UserKeyTagged(offer_id, user_id, today)
         ex == OnStartExpireAt(start_day)
     IN CASE offer_type = "GLOBAL_ONLY" ->
               LET argv == <<config.global_cap, ex>>
               IN ScriptStep(user_id, offer_id, "single", <<global_key>>, argv,
                             ATOMIC_INCR_THEN_CHECK_SINGLE_LUA(store, <<global_key>>, argv))
          [] offer_type = "USER_ONLY" ->
               LET argv == <<UserCapOrDefault(config), ex>>
               IN ScriptStep(user_id, offer_id, "single", <<user_key>>, argv,
                             ATOMIC_INCR_THEN_CHECK_SINGLE_LUA(store, <<user_key>>, argv))
          [] offer_type = "BOTH" ->
               LET argv == <<config.global_cap, UserCapOrDefault(config), ex>>
               IN ScriptStep(user_id, offer_id, "both", <<global_key, user_key>>, argv,
                             ATOMIC_INCR_THEN_CHECK_BOTH_LUA(store, <<global_key, user_key>>, argv))

(***************************************************************************)
(* opt_v2.py: increment-then-check with reduced compensation.              *)
(***************************************************************************)
ATOMIC_CLAIM_SINGLE_NO_DECR_LUA(s, KEYS, ARGV) ==
  LET k == KEYS[1]
      c == ARGV[1]
      ex == ARGV[2]
      s1 == INCR(s, k)
      n == s1[k].val
  IN IF n <= c
       THEN Reply(IF n = 1 THEN EXPIREAT(s1, k, ex) ELSE s1, "SUCCESS")
       ELSE Reply(s1, "FAIL_CAP_MET")

\* ATOMIC_CLAIM_BOTH_REDUCED_DECR_LUA without any DECR
ATOMIC_CLAIM_BOTH_REDUCED_DECR_LUA_NoDecr(s, KEYS, ARGV) ==
  LET g == KEYS[1]
      u == KEYS[2]
      s1 == INCR(s, g)
      n_g == s1[g].val
  IN IF n_g <= ARGV[1]
       THEN LET s2 == INCR(s1, u)
                n_u == s2[u].val
            IN IF n_u <= ARGV[2]
                 THEN LET s3 == IF n_g = 1 THEN EXPIREAT(s2, g, ARGV[3]) ELSE s2
                          s4 == IF n_u = 1 THEN EXPIREAT(s3, u, ARGV[3]) ELSE s3
                      IN Reply(s4, "SUCCESS")
                 ELSE Reply(s2, "FAIL_USER_CAP_MET")
       ELSE Reply(s1, "FAIL_GLOBAL_CAP_MET")

ATOMIC_CLAIM_BOTH_REDUCED_DECR_LUA_UserFirst(s, KEYS, ARGV) ==
  LET g == KEYS[1]
      u == KEYS[2]
      gc == ARGV[1]
      uc == ARGV[2]
      ex == ARGV[3]
      s1 == INCR(s, u)
      n_u == s1[u].val
  IN IF n_u <= uc
       THEN LET s2 == INCR(s1, g)
                n_g == s2[g].val
            IN IF n_g <= gc
                 THEN LET s3 == IF n_g = 1 THEN EXPIREAT(s2, g, ex) ELSE s2
                          s4 == IF n_u = 1 THEN EXPIREAT(s3, u, ex) ELSE s3
                      IN Reply(s4, "SUCCESS")
                 ELSE Reply(DECR(s2, u), "FAIL_GLOBAL_CAP_MET")
       ELSE Reply(s1, "FAIL_USER_CAP_MET")

ATOMIC_CLAIM_BOTH_REDUCED_DECR_LUA(s, KEYS, ARGV) ==
  LET g == KEYS[1]
      u == KEYS[2]
      gc == ARGV[1]
      uc == ARGV[2]
      ex == ARGV[3]
      s1 == INCR(s, g)
      n_g == s1[g].val
  IN IF n_g <= gc
       THEN LET s2 == INCR(s1, u)
                n_u == s2[u].val
            IN IF n_u <= uc
                 THEN LET s3 == IF n_g = 1 THEN EXPIREAT(s2, g, ex) ELSE s2
                          s4 == IF n_u = 1 THEN EXPIREAT(s3, u, ex) ELSE s3
                      IN Reply(s4, "SUCCESS")
                 ELSE Reply(DECR(s2, g), "FAIL_USER_CAP_MET")
       ELSE Reply(s1, "FAIL_GLOBAL_CAP_MET")

\* opt_v2._claim_offers_optimized: the loop body for one offer
ClaimOptV2(user_id, offer_id, start_day) ==
  /\ program = "opt_v2"
  /\ MayClaim
  /\ LET config == OFFER_CONFIGS[offer_id]
         offer_type == config.type
         g_key == GlobalKeyTagged(offer_id, today)
         u_key == UserKeyTagged(offer_id, user_id, today)
         expire_timestamp == OnStartExpireAt(start_day)
     IN CASE offer_type = "GLOBAL_ONLY" ->
               LET argv == <<config.global_cap, expire_timestamp>>
               IN ScriptStep(user_id, offer_id, "single", <<g_key>>, argv,
                             ATOMIC_CLAIM_SINGLE_NO_DECR_LUA(store, <<g_key>>, argv))
          [] offer_type = "USER_ONLY" ->
               LET argv == <<UserCapOrDefault(config), expire_timestamp>>
               IN ScriptStep(user_id, offer_id, "single", <<u_key>>, argv,
                             ATOMIC_CLAIM_SINGLE_NO_DECR_LUA(store, <<u_key>>, argv))
          [] offer_type = "BOTH" ->
               LET argv == <<config.global_cap, UserCapOrDefault(config), expire_timestamp>>
               IN ScriptStep(user_id, offer_id, "both", <<g_key, u_key>>, argv,
                             ATOMIC_CLAIM_BOTH_REDUCED_DECR_LUA(store, <<g_key, u_key>>, argv))

(***************************************************************************)
(* locust_iterative_atomic.py: one single-key check-then-increment script, *)
(* called once per cap; a BOTH offer takes two calls.                      *)
(***************************************************************************)
ATOMIC_CHECK_AND_INCR_LUA_AlwaysExpire(s, KEYS, ARGV) ==
  LET key == KEYS[1]
      cap == ARGV[1]
      expire_at == ARGV[2]
      current_count == OrZero(GET(s, key))
  IN IF current_count < cap
       THEN Reply(EXPIREAT(INCR(s, key), key, expire_at), "SUCCESS")
       ELSE Reply(s, "FAIL_CAP_MET")

ATOMIC_CHECK_AND_INCR_LUA(s, KEYS, ARGV) ==
  LET key == KEYS[1]
      cap == ARGV[1]
      expire_at == ARGV[2]
      current_count == OrZero(GET(s, key))
  IN IF current_count < cap
       THEN LET s1 == INCR(s, key)
                new_count == s1[key].val
                s2 == IF new_count = 1 THEN EXPIREAT(s1, key, expire_at) ELSE s1
            IN Reply(s2, "SUCCESS")
       ELSE Reply(s, "FAIL_CAP_MET")

\* A client in the middle of a claim: where it is, and the locals it holds.
Busy(pc, offer_id, day, expire_timestamp) ==
  [pc |-> pc, offer_id |-> offer_id, day |-> day,
   expire_timestamp |-> expire_timestamp]

\* _claim_offers_iterative_atomic, loop body up to its first script call
IterativeAtomicFirst(user_id, offer_id, utc_day) ==
  /\ program = "locust_iterative_atomic"
  /\ MayClaim
  /\ proc[user_id] = Idle
  /\ LET config == OFFER_CONFIGS[offer_id]
         offer_type == config.type
         expire_timestamp == get_next_day_midnight_timestamp(utc_day)
         key == IF offer_type = "GLOBAL_ONLY"
                  THEN GlobalKeyPlain(offer_id, today)
                  ELSE UserKeyUserTagged(user_id, offer_id, today)
         cap == IF offer_type = "GLOBAL_ONLY"
                  THEN config.global_cap
                  ELSE UserCapOrDefault(config)
         argv == <<cap, expire_timestamp>>
         r == ATOMIC_CHECK_AND_INCR_LUA(store, <<key>>, argv)
     IN /\ store' = r.store
        /\ last' = Call("check_and_incr", <<key>>, argv, r.ret)
        /\ claims' = claims + 1
        /\ IF offer_type = "BOTH" /\ r.ret = "SUCCESS"
             THEN /\ proc' = [proc EXCEPT ![user_id] =
                                Busy("global", offer_id, today, expire_timestamp)]
                  /\ UNCHANGED outcomes
             ELSE /\ outcomes' = Record(user_id, offer_id, today,
                                        IF offer_type = "BOTH" THEN "NOT_GRANTED" ELSE r.ret)
                  /\ UNCHANGED proc
        /\ UNCHANGED <<program, today>>

\* the second script call of the BOTH branch, on the global cell
IterativeAtomicGlobal(user_id) ==
  /\ program = "locust_iterative_atomic"
  /\ proc[user_id].pc = "global"
  /\ LET p == proc[user_id]
         offer_key == GlobalKeyPlain(p.offer_id, p.day)
         global_cap == OFFER_CONFIGS[p.offer_id].global_cap
         argv == <<global_cap, p.expire_timestamp>>
         r == ATOMIC_CHECK_AND_INCR_LUA(store, <<offer_key>>, argv)
     IN /\ store' = r.store
        /\ last' = Call("check_and_incr", <<offer_key>>, argv, r.ret)
        /\ outcomes' = Record(user_id, p.offer_id, p.day,
                              IF r.ret = "SUCCESS" THEN "SUCCESS" ELSE "NOT_GRANTED")
        /\ proc' = [proc EXCEPT ![user_id] = Idle]
        /\ UNCHANGED <<program, today, claims>>

(***************************************************************************)
(* locust_cluster.py / locust_sharded.py: _claim_offers_one_by_one.  Every *)
(* GET, INCR and EXPIREAT is a separate call of the client.  The two files *)
(* differ in the expire_timestamp of a call.                               *)
(***************************************************************************)
OneByOnePrograms == {"locust_cluster", "locust_sharded"}

\* the random seconds a call can draw: none in locust_cluster
OneByOneRandomSeconds ==
  IF program = "locust_sharded" THEN RandomSeconds ELSE {0}

\* the first GET of the loop body and the comparison with the cap
OneByOneGet(user_id, offer_id, utc_day, random_second) ==
  /\ program \in OneByOnePrograms
  /\ MayClaim
  /\ proc[user_id] = Idle
  /\ LET config == OFFER_CONFIGS[offer_id]
         offer_type == config.type
         expire_timestamp ==
           IF program = "locust_sharded"
             THEN get_random_next_day_timestamp(utc_day, random_second)
             ELSE get_next_day_midnight_timestamp(utc_day)
         key == IF offer_type = "GLOBAL_ONLY"
                  THEN GlobalKeyPlain(offer_id, today)
                  ELSE UserKeyUserTagged(user_id, offer_id, today)
         cap == IF offer_type = "GLOBAL_ONLY"
                  THEN config.global_cap
                  ELSE UserCapOrDefault(config)
         reply == GET(store, key)
     IN /\ last' = Call("GET", <<key>>, <<>>, reply)
        /\ claims' = claims + 1
        /\ IF OrZero(reply) < cap
             THEN /\ proc' = [proc EXCEPT ![user_id] =
                                Busy(IF offer_type = "BOTH" THEN "get_offer" ELSE "incr",
                                     offer_id, today, expire_timestamp)]
                  /\ UNCHANGED outcomes
             ELSE /\ outcomes' = Record(user_id, offer_id, today, "NOT_GRANTED")
                  /\ UNCHANGED proc
        /\ UNCHANGED <<program, store, today>>

\* BOTH branch: the GET of the global cell
OneByOneGetOffer(user_id) ==
  /\ program \in OneByOnePrograms
  /\ proc[user_id].pc = "get_offer"
  /\ LET p == proc[user_id]
         offer_key == GlobalKeyPlain(p.offer_id, p.day)
         reply == GET(store, offer_key)
     IN /\ last' = Call("GET", <<offer_key>>, <<>>, reply)
        /\ IF OrZero(reply) < OFFER_CONFIGS[p.offer_id].global_cap
             THEN /\ proc' = [proc EXCEPT ![user_id].pc = "incr_user"]
                  /\ UNCHANGED outcomes
             ELSE /\ outcomes' = Record(user_id, p.offer_id, p.day, "NOT_GRANTED")
                  /\ proc' = [proc EXCEPT ![user_id] = Idle]
        /\ UNCHANGED <<program, store, today, claims>>

\* the key a client is about to increment or to expire
OneByOneKey(user_id) ==
  LET p == proc[user_id]
  IN IF \/ p.pc \in {"incr_offer", "expireat_offer"}
        \/ OFFER_CONFIGS[p.offer_id].type = "GLOBAL_ONLY"
       THEN GlobalKeyPlain(p.offer_id, p.day)
       ELSE UserKeyUserTagged(user_id, p.offer_id, p.day)

\* self.client.incr(key)
OneByOneIncr(user_id) ==
  /\ program \in OneByOnePrograms
  /\ proc[user_id].pc \in {"incr", "incr_user", "incr_offer"}
  /\ LET key == OneByOneKey(user_id)
         s1 == INCR(store, key)
         pc == proc[user_id].pc
     IN /\ store' = s1
        /\ last' = Call("INCR", <<key>>, <<>>, <<s1[key].val>>)
        /\ proc' = [proc EXCEPT ![user_id].pc =
                      CASE pc = "incr" -> "expireat"
                        [] pc = "incr_user" -> "expireat_user"
                        [] pc = "incr_offer" -> "expireat_offer"]
        /\ UNCHANGED <<program, today, outcomes, claims>>

\* self.client.expireat(key, expire_timestamp); the last one ends the branch
\* with was_granted = True
OneByOneExpireAt(user_id) ==
  /\ program \in OneByOnePrograms
  /\ proc[user_id].pc \in {"expireat", "expireat_user", "expireat_offer"}
  /\ LET p == proc[user_id]
         key == OneByOneKey(user_id)
     IN /\ store' = EXPIREAT(store, key, p.expire_timestamp)
        /\ last' = Call("EXPIREAT", <<key>>, <<p.expire_timestamp>>, <<1>>)
        /\ IF p.pc = "expireat_user"
             THEN /\ proc' = [proc EXCEPT ![user_id].pc = "incr_offer"]
                  /\ UNCHANGED outcomes
             ELSE /\ outcomes' = Record(user_id, p.offer_id, p.day, "SUCCESS")
                  /\ proc' = [proc EXCEPT ![user_id] = Idle]
        /\ UNCHANGED <<program, today, claims>>

(***************************************************************************)
(* locust_v3.py and offerings_lua/locust.py: the user cell goes through a  *)
(* check-then-increment script, the global cell through a plain INCR.      *)
(***************************************************************************)
USER_ONLY_LUA_SCRIPT(s, KEYS, ARGV) ==
  IF OrZero(GET(s, KEYS[1])) < ARGV[1]
    THEN LET s1 == INCR(s, KEYS[1])
         IN Reply(IF s1[KEYS[1]].val = 1 THEN EXPIREAT(s1, KEYS[1], ARGV[2]) ELSE s1,
                  "SUCCESS")
    ELSE Reply(s, "FAIL_USER_CAP_MET")

\* The user script of a BOTH offer and what the caller does with its reply.
UserScriptStep(user_id, offer_id, expire_at_timestamp) ==
  LET config == OFFER_CONFIGS[offer_id]
      user_key == UserKeyUserTagged(user_id, offer_id, today)
      user_args == <<config.user_cap, expire_at_timestamp>>
      r == USER_ONLY_LUA_SCRIPT(store, <<user_key>>, user_args)
  IN /\ store' = r.store
     /\ last' = Call("user", <<user_key>>, user_args, r.ret)
     /\ claims' = claims + 1
     /\ IF r.ret = "SUCCESS"
          THEN /\ proc' = [proc EXCEPT ![user_id] =
                             Busy("incr_global", offer_id, today, expire_at_timestamp)]
               /\ UNCHANGED outcomes
          ELSE /\ outcomes' = Record(user_id, offer_id, today, r.ret)
               /\ UNCHANGED proc
     /\ UNCHANGED <<program, today>>

\* The plain INCR of the global cell; the offer is then reported as granted.
GlobalIncrStep(user_id) ==
  LET p == proc[user_id]
      global_key == GlobalKeyPlain(p.offer_id, p.day)
      s1 == INCR(store, global_key)
  IN /\ store' = s1
     /\ last' = Call("INCR", <<global_key>>, <<>>, <<s1[global_key].val>>)
     /\ outcomes' = Record(user_id, p.offer_id, p.day, "SUCCESS")
     /\ proc' = [proc EXCEPT ![user_id] = Idle]
     /\ UNCHANGED <<program, today, claims>>

\* locust_v3._claim_selected_offers_cluster_safe, loop body: only the BOTH
\* branch is live
ClaimClusterSafe(user_id, offer_id, start_day) ==
  /\ program = "locust_v3"
  /\ MayClaim
  /\ proc[user_id] = Idle
  /\ IF OFFER_CONFIGS[offer_id].type = "BOTH"
       THEN UserScriptStep(user_id, offer_id, OnStartExpireAt(start_day))
       ELSE NoStoreCall(user_id, offer_id)

\* self.client.incr(global_key)
ClaimClusterSafeIncr(user_id) ==
  /\ program = "locust_v3"
  /\ proc[user_id].pc = "incr_global"
  /\ GlobalIncrStep(user_id)

\* offerings_lua/locust.py claim_offers_flexible, pipeline 1 for one offer
claim_offers_flexible(user_id, offer_id, random_seconds) ==
  /\ program = "offerings_lua"
  /\ MayClaim
  /\ proc[user_id] = Idle
  /\ IF OFFER_CONFIGS[offer_id].type = "BOTH"
       THEN UserScriptStep(user_id, offer_id, NextDayAt(today, 0) + random_seconds)
       ELSE NoStoreCall(user_id, offer_id)

\* pipeline 2: pipe2.incr(f"offer:{offer_id}:{current_date_str}")
claim_offers_flexible_pipe2(user_id) ==
  /\ program = "offerings_lua"
  /\ proc[user_id].pc = "incr_global"
  /\ GlobalIncrStep(user_id)

(***************************************************************************)
(* Orchestrators: _secure_n_offers (batch_locust, multi_node_locust,       *)
(* locust_v3) and the streaming loops _claim_offers_optimal_cluster (v4)   *)
(* and _claim_offers_optimized (opt_v2).  A run is the state of one call:  *)
(* its arguments, its locals, and a record of what it has done.            *)
(***************************************************************************)
\* an offer id that is not a key of OFFER_CONFIGS
UnknownOfferId == "oX"

CandidateIds == ALL_OFFER_IDS \cup {UnknownOfferId}

\* candidate lists handed to a run: every list of one or two ids (also the
\* same id twice), and two longer ones
CandidateLists ==
  {<<a>> : a \in CandidateIds}
    \cup {<<a, b>> : a \in CandidateIds, b \in CandidateIds}
    \cup {<<"oG", "oB", "oU">>, <<"oB", "oG", "oU", "oX">>}

\* n_required / grant_limit
Targets == 1..2

NoConfig == [type |-> "none"]

\* OFFER_CONFIGS.get(offer_id)
ConfigOf(offer_id) ==
  IF offer_id \in ALL_OFFER_IDS THEN OFFER_CONFIGS[offer_id] ELSE NoConfig

Range(seq) == {seq[i] : i \in 1..Len(seq)}

\* the lists list(s)[:n] can be: Python fixes no order on the elements of a set
ListPrefixes(s, n) ==
  LET len == IF Cardinality(s) < n THEN Cardinality(s) ELSE n
  IN {q \in [1..len -> s] : \A i, j \in 1..len : i # j => q[i] # q[j]}

SecurePrograms == {"batch_locust", "multi_node_locust", "locust_v3"}
StreamPrograms == {"v4", "opt_v2"}

\* the programs whose GLOBAL_ONLY and USER_ONLY branches are not commented out
AllKindsLive == program \in {"multi_node_locust", "opt_v2"}

\* max_attempts of _secure_n_offers
max_attempts(n_required) ==
  IF program = "locust_v3" THEN 3 ELSE n_required + 5

\* The script call the loop body of the claim function issues for an offer,
\* NoCall when it issues none.
ClaimCallOf(user_id, offer_id, day, expire_at_timestamp) ==
  LET config == ConfigOf(offer_id)
      global_key == GlobalKeyTagged(offer_id, day)
      user_key == UserKeyTagged(offer_id, user_id, day)
  IN CASE config = NoConfig -> NoCall
       [] config.type = "BOTH" /\ program = "locust_v3" ->
            Call("user", <<UserKeyUserTagged(user_id, offer_id, day)>>,
                 <<config.user_cap, expire_at_timestamp>>, "none")
       [] config.type = "BOTH" /\ program # "locust_v3" ->
            Call("both", <<global_key, user_key>>,
                 <<config.global_cap, UserCapOrDefault(config), expire_at_timestamp>>,
                 "none")
       [] config.type = "GLOBAL_ONLY" /\ AllKindsLive ->
            Call("single", <<global_key>>,
                 <<config.global_cap, expire_at_timestamp>>, "none")
       [] config.type = "USER_ONLY" /\ AllKindsLive ->
            Call("single", <<user_key>>,
                 <<UserCapOrDefault(config), expire_at_timestamp>>, "none")
       [] OTHER -> NoCall

\* self.scripts[...](keys=..., args=...): the script registered under the
\* name in the program
RunScript(s, call) ==
  CASE program \in {"v4", "batch_locust"} /\ call.script = "both" ->
         ATOMIC_CLAIM_BOTH_LUA(s, call.keys, call.argv)
    [] program \in {"multi_node_locust", "one_node_locust"} /\ call.script = "both" ->
         ATOMIC_INCR_THEN_CHECK_BOTH_LUA(s, call.keys, call.argv)
    [] program = "multi_node_locust" /\ call.script = "single" ->
         ATOMIC_INCR_THEN_CHECK_SINGLE_LUA(s, call.keys, call.argv)
    [] program = "opt_v2" /\ call.script = "both" ->
         ATOMIC_CLAIM_BOTH_REDUCED_DECR_LUA(s, call.keys, call.argv)
    [] program = "opt_v2" /\ call.script = "single" ->
         ATOMIC_CLAIM_SINGLE_NO_DECR_LUA(s, call.keys, call.argv)
    [] program = "locust_v3" /\ call.script = "user" ->
         USER_ONLY_LUA_SCRIPT(s, call.keys, call.argv)

NoOffer == "none"

\* A run that has just been called.  passed, called, successes, raised and
\* failed record what the run has done: the ids handed to the claim function,
\* the ids a script was called for, the ids whose claim succeeded, the ids
\* with a cell the run has left higher than it found it, the ids whose claim
\* raised a RedisError.
NewRun(pc, candidates, target, start_day) ==
  [pc |-> pc, candidates |-> candidates, target |-> target,
   start_day |-> start_day, day |-> today,
   claimed_set |-> {}, attempted_set |-> {}, attempts |-> 0,
   batch_to_try |-> <<>>, granted |-> <<>>, pending |-> NoOffer,
   queued |-> <<>>, results |-> <<>>,
   passed |-> <<>>, called |-> <<>>, successes |-> <<>>, raised |-> {},
   failed |-> {}]

InRun(user_id) == proc[user_id].pc \in {"secure", "stream", "pipe"}

\* cells of the call that the store s1 holds higher than the current store
RaisedIn(s1, call) ==
  {k \in KeysOf(call) : ValueOf(s1, k) > ValueOf(store, k)}

\* the loop body with break in place of continue for an offer that issues no
\* call
ClaimHead_AbsentEndsBatch(user_id) ==
  LET p == proc[user_id]
      offer_id == Head(p.batch_to_try)
      call == ClaimCallOf(user_id, offer_id, p.day, OnStartExpireAt(p.start_day))
  IN IF call = NoCall
       THEN /\ proc' = [proc EXCEPT ![user_id].batch_to_try = <<>>]
            /\ last' = NoCall
            /\ UNCHANGED store
       ELSE LET r == RunScript(store, call)
                was_granted == r.ret = "SUCCESS" /\ program # "locust_v3"
                raised == IF RaisedIn(r.store, call) = {} THEN {} ELSE {offer_id}
            IN /\ store' = r.store
               /\ last' = Call(call.script, call.keys, call.argv, r.ret)
               /\ proc' = [proc EXCEPT ![user_id] =
                    [p EXCEPT !.batch_to_try = Tail(p.batch_to_try),
                              !.called = Append(p.called, offer_id),
                              !.raised = p.raised \cup raised,
                              !.granted = IF was_granted
                                            THEN Append(p.granted, offer_id)
                                            ELSE p.granted,
                              !.successes = IF was_granted
                                              THEN Append(p.successes, offer_id)
                                              ELSE p.successes,
                              !.pending = IF r.ret = "SUCCESS" /\ program = "locust_v3"
                                            THEN offer_id
                                            ELSE NoOffer]]

\* The loop body of the claim function for the first offer of the list still
\* to be tried: no store call for an id without configuration or of a kind
\* whose branch is commented out, one script call otherwise.
ClaimHead(user_id) ==
  LET p == proc[user_id]
      offer_id == Head(p.batch_to_try)
      call == ClaimCallOf(user_id, offer_id, p.day, OnStartExpireAt(p.start_day))
  IN IF call = NoCall
       THEN /\ proc' = [proc EXCEPT ![user_id].batch_to_try = Tail(p.batch_to_try)]
            /\ last' = NoCall
            /\ UNCHANGED store
       ELSE LET r == RunScript(store, call)
                was_granted == r.ret = "SUCCESS" /\ program # "locust_v3"
                raised == IF RaisedIn(r.store, call) = {} THEN {} ELSE {offer_id}
            IN /\ store' = r.store
               /\ last' = Call(call.script, call.keys, call.argv, r.ret)
               /\ proc' = [proc EXCEPT ![user_id] =
                    [p EXCEPT !.batch_to_try = Tail(p.batch_to_try),
                              !.called = Append(p.called, offer_id),
                              !.raised = p.raised \cup raised,
                              !.granted = IF was_granted
                                            THEN Append(p.granted, offer_id)
                                            ELSE p.granted,
                              !.successes = IF was_granted
                                              THEN Append(p.successes, offer_id)
                                              ELSE p.successes,
                              !.pending = IF r.ret = "SUCCESS" /\ program = "locust_v3"
                                            THEN offer_id
                                            ELSE NoOffer]]

\* _secure_n_offers is called
StartSecure(user_id, offers_to_evaluate, n_required, start_day) ==
  /\ program \in SecurePrograms
  /\ MayClaim
  /\ ~InRun(user_id)
  /\ proc' = [proc EXCEPT ![user_id] =
                NewRun("secure", offers_to_evaluate, n_required, start_day)]
  /\ last' = NoCall
  /\ claims' = claims + 1
  /\ UNCHANGED <<program, store, today, outcomes>>

\* _secure_n_offers with available_to_try cut from the whole pool
SecureLoop_NoAttemptedSet(user_id) ==
  /\ program \in SecurePrograms
  /\ proc[user_id].pc = "secure"
  /\ proc[user_id].batch_to_try = <<>>
  /\ proc[user_id].pending = NoOffer
  /\ LET p == proc[user_id]
         claimed_set == p.claimed_set \cup Range(p.granted)
         needed_count == p.target - Cardinality(claimed_set)
         available_to_try == Range(p.candidates)
     IN IF \/ p.attempts >= max_attempts(p.target)
           \/ Cardinality(claimed_set) >= p.target
           \/ available_to_try = {}
          THEN proc' = [proc EXCEPT ![user_id] =
                 [p EXCEPT !.pc = "done", !.claimed_set = claimed_set,
                           !.granted = <<>>]]
          ELSE \E batch_to_try \in ListPrefixes(available_to_try, needed_count) :
                 proc' = [proc EXCEPT ![user_id] =
                   [p EXCEPT !.claimed_set = claimed_set,
                             !.granted = <<>>,
                             !.attempts = p.attempts + 1,
                             !.attempted_set = p.attempted_set \cup Range(batch_to_try),
                             !.batch_to_try = batch_to_try,
                             !.passed = p.passed \o batch_to_try,
                             !.day = today]]
  /\ last' = NoCall
  /\ UNCHANGED <<program, store, today, outcomes, claims>>

\* _secure_n_offers with claimed_set = set(newly_claimed) in place of update
SecureLoop_ReplaceClaimed(user_id) ==
  /\ program \in SecurePrograms
  /\ proc[user_id].pc = "secure"
  /\ proc[user_id].batch_to_try = <<>>
  /\ proc[user_id].pending = NoOffer
  /\ LET p == proc[user_id]
         claimed_set == IF p.granted = <<>> THEN p.claimed_set ELSE Range(p.granted)
         needed_count == p.target - Cardinality(claimed_set)
         available_to_try == Range(p.candidates) \ p.attempted_set
     IN IF \/ p.attempts >= max_attempts(p.target)
           \/ Cardinality(claimed_set) >= p.target
           \/ available_to_try = {}
          THEN proc' = [proc EXCEPT ![user_id] =
                 [p EXCEPT !.pc = "done", !.claimed_set = claimed_set,
                           !.granted = <<>>]]
          ELSE \E batch_to_try \in ListPrefixes(available_to_try, needed_count) :
                 proc' = [proc EXCEPT ![user_id] =
                   [p EXCEPT !.claimed_set = claimed_set,
                             !.granted = <<>>,
                             !.attempts = p.attempts + 1,
                             !.attempted_set = p.attempted_set \cup Range(batch_to_try),
                             !.batch_to_try = batch_to_try,
                             !.passed = p.passed \o batch_to_try,
                             !.day = today]]
  /\ last' = NoCall
  /\ UNCHANGED <<program, store, today, outcomes, claims>>

\* _secure_n_offers, one pass of the for loop up to the call of the claim
\* function: the grants of the batch just tried join claimed_set, then the
\* loop ends or the next batch is cut from the ids not yet attempted
SecureLoop(user_id) ==
  /\ program \in SecurePrograms
  /\ proc[user_id].pc = "secure"
  /\ proc[user_id].batch_to_try = <<>>
  /\ proc[user_id].pending = NoOffer
  /\ LET p == proc[user_id]
         claimed_set == p.claimed_set \cup Range(p.granted)
         needed_count == p.target - Cardinality(claimed_set)
         available_to_try == Range(p.candidates) \ p.attempted_set
     IN IF \/ p.attempts >= max_attempts(p.target)
           \/ Cardinality(claimed_set) >= p.target
           \/ available_to_try = {}
          THEN proc' = [proc EXCEPT ![user_id] =
                 [p EXCEPT !.pc = "done", !.claimed_set = claimed_set,
                           !.granted = <<>>]]
          ELSE \E batch_to_try \in ListPrefixes(available_to_try, needed_count) :
                 proc' = [proc EXCEPT ![user_id] =
                   [p EXCEPT !.claimed_set = claimed_set,
                             !.granted = <<>>,
                             !.attempts = p.attempts + 1,
                             !.attempted_set = p.attempted_set \cup Range(batch_to_try),
                             !.batch_to_try = batch_to_try,
                             !.passed = p.passed \o batch_to_try,
                             !.day = today]]
  /\ last' = NoCall
  /\ UNCHANGED <<program, store, today, outcomes, claims>>

\* the claim function of _secure_n_offers, loop body for one offer of the
\* batch
SecureClaim(user_id) ==
  /\ program \in SecurePrograms
  /\ proc[user_id].pc = "secure"
  /\ proc[user_id].batch_to_try # <<>>
  /\ proc[user_id].pending = NoOffer
  /\ ClaimHead(user_id)
  /\ UNCHANGED <<program, today, outcomes, claims>>

\* locust_v3: self.client.incr(global_key) after the user script succeeded
SecureGlobalIncr(user_id) ==
  /\ program = "locust_v3"
  /\ proc[user_id].pc = "secure"
  /\ proc[user_id].pending # NoOffer
  /\ LET p == proc[user_id]
         global_key == GlobalKeyPlain(p.pending, p.day)
         s1 == INCR(store, global_key)
     IN /\ store' = s1
        /\ proc' = [proc EXCEPT ![user_id] =
             [p EXCEPT !.pending = NoOffer,
                       !.granted = Append(p.granted, p.pending),
                       !.successes = Append(p.successes, p.pending),
                       !.raised = p.raised \cup {p.pending}]]
        /\ last' = Call("INCR", <<global_key>>, <<>>, ToString(s1[global_key].val))
  /\ UNCHANGED <<program, today, outcomes, claims>>

\* locust_v3: the user script's call raises redis.exceptions.RedisError.  The
\* handler of the loop body drops the exception before the rest of the batch
\* is dropped with it
SecureClaimFails_LeavesLoop(user_id) ==
  /\ program = "locust_v3"
  /\ proc[user_id].pc = "secure"
  /\ proc[user_id].batch_to_try # <<>>
  /\ proc[user_id].pending = NoOffer
  /\ LET p == proc[user_id]
         offer_id == Head(p.batch_to_try)
         call == ClaimCallOf(user_id, offer_id, p.day, OnStartExpireAt(p.start_day))
     IN /\ call # NoCall
        /\ \E s1 \in {store, RunScript(store, call).store} :
             /\ store' = s1
             /\ last' = Call(call.script, call.keys, call.argv, "RedisError")
             /\ proc' = [proc EXCEPT ![user_id] =
                  [p EXCEPT !.batch_to_try = <<>>,
                            !.called = Append(p.called, offer_id),
                            !.raised = p.raised \cup
                                         (IF RaisedIn(s1, call) = {} THEN {} ELSE {offer_id}),
                            !.failed = p.failed \cup {offer_id}]]
  /\ UNCHANGED <<program, today, outcomes, claims>>

\* locust_v3: the user script's call raises redis.exceptions.RedisError (the
\* store has run the script or not); except ...: pass ends the loop body of
\* this offer, the loop goes on with the next offer of the batch
SecureClaimFails(user_id) ==
  /\ program = "locust_v3"
  /\ proc[user_id].pc = "secure"
  /\ proc[user_id].batch_to_try # <<>>
  /\ proc[user_id].pending = NoOffer
  /\ LET p == proc[user_id]
         offer_id == Head(p.batch_to_try)
         call == ClaimCallOf(user_id, offer_id, p.day, OnStartExpireAt(p.start_day))
     IN /\ call # NoCall
        /\ \E s1 \in {store, RunScript(store, call).store} :
             /\ store' = s1
             /\ last' = Call(call.script, call.keys, call.argv, "RedisError")
             /\ proc' = [proc EXCEPT ![user_id] =
                  [p EXCEPT !.batch_to_try = Tail(p.batch_to_try),
                            !.called = Append(p.called, offer_id),
                            !.raised = p.raised \cup
                                         (IF RaisedIn(s1, call) = {} THEN {} ELSE {offer_id}),
                            !.failed = p.failed \cup {offer_id}]]
  /\ UNCHANGED <<program, today, outcomes, claims>>

\* locust_v3: self.client.incr(global_key) raises RedisError (the store has
\* run the INCR or not), before was_granted = True is reached
SecureGlobalIncrFails(user_id) ==
  /\ program = "locust_v3"
  /\ proc[user_id].pc = "secure"
  /\ proc[user_id].pending # NoOffer
  /\ LET p == proc[user_id]
         global_key == GlobalKeyPlain(p.pending, p.day)
     IN \E s1 \in {store, INCR(store, global_key)} :
          /\ store' = s1
          /\ proc' = [proc EXCEPT ![user_id] =
               [p EXCEPT !.pending = NoOffer,
                         !.raised = p.raised \cup {p.pending},
                         !.failed = p.failed \cup {p.pending}]]
          /\ last' = Call("INCR", <<global_key>>, <<>>, "RedisError")
  /\ UNCHANGED <<program, today, outcomes, claims>>

\* batch_locust and multi_node_locust: the store fails a script call of
\* _claim_offers_in_batch, with or without having run the script.  Nothing
\* below secure_n_offers_task catches the RedisError: the run is left,
\* claimed_set and the batch's granted list are dropped with it.
SecureClaimRaises_Continues(user_id) ==
  /\ program \in {"batch_locust", "multi_node_locust"}
  /\ proc[user_id].pc = "secure"
  /\ proc[user_id].batch_to_try # <<>>
  /\ LET p == proc[user_id]
         offer_id == Head(p.batch_to_try)
         call == ClaimCallOf(user_id, offer_id, p.day, OnStartExpireAt(p.start_day))
     IN /\ call # NoCall
        /\ \E s1 \in {store, RunScript(store, call).store} :
             /\ store' = s1
             /\ last' = Call(call.script, call.keys, call.argv, "RedisError")
             /\ proc' = [proc EXCEPT ![user_id] =
                  [p EXCEPT !.batch_to_try = Tail(p.batch_to_try),
                            !.called = Append(p.called, offer_id),
                            !.raised = p.raised \cup
                                         (IF RaisedIn(s1, call) = {} THEN {} ELSE {offer_id}),
                            !.failed = p.failed \cup {offer_id}]]
  /\ UNCHANGED <<program, today, outcomes, claims>>

SecureClaimRaises(user_id) ==
  /\ program \in {"batch_locust", "multi_node_locust"}
  /\ proc[user_id].pc = "secure"
  /\ proc[user_id].batch_to_try # <<>>
  /\ LET p == proc[user_id]
         offer_id == Head(p.batch_to_try)
         call == ClaimCallOf(user_id, offer_id, p.day, OnStartExpireAt(p.start_day))
     IN /\ call # NoCall
        /\ \E s1 \in {store, RunScript(store, call).store} :
             /\ store' = s1
             /\ last' = Call(call.script, call.keys, call.argv, "RedisError")
             /\ proc' = [proc EXCEPT ![user_id] =
                  [p EXCEPT !.pc = "aborted",
                            !.called = Append(p.called, offer_id),
                            !.raised = p.raised \cup
                                         (IF RaisedIn(s1, call) = {} THEN {} ELSE {offer_id}),
                            !.failed = p.failed \cup {offer_id}]]
  /\ UNCHANGED <<program, today, outcomes, claims>>

\* _claim_offers_optimal_cluster / _claim_offers_optimized is called
StartStream(user_id, applicable_offers_ids, grant_limit, start_day) ==
  /\ program \in StreamPrograms
  /\ MayClaim
  /\ ~InRun(user_id)
  /\ proc' = [proc EXCEPT ![user_id] =
                [NewRun("stream", applicable_offers_ids, grant_limit, start_day)
                   EXCEPT !.batch_to_try = applicable_offers_ids]]
  /\ last' = NoCall
  /\ claims' = claims + 1
  /\ UNCHANGED <<program, store, today, outcomes>>

\* the streaming loop without the grant_limit test at the head of the body
StreamClaim_NoGrantLimit(user_id) ==
  /\ program \in StreamPrograms
  /\ proc[user_id].pc = "stream"
  /\ proc[user_id].batch_to_try # <<>>
  /\ ClaimHead(user_id)
  /\ UNCHANGED <<program, today, outcomes, claims>>

\* the streaming loop, body for the next candidate
StreamClaim(user_id) ==
  /\ program \in StreamPrograms
  /\ proc[user_id].pc = "stream"
  /\ proc[user_id].batch_to_try # <<>>
  /\ Len(proc[user_id].granted) < proc[user_id].target
  /\ ClaimHead(user_id)
  /\ UNCHANGED <<program, today, outcomes, claims>>

\* the streaming loop ends: the list is exhausted or grant_limit is reached
StreamReturn(user_id) ==
  /\ program \in StreamPrograms
  /\ proc[user_id].pc = "stream"
  /\ \/ proc[user_id].batch_to_try = <<>>
     \/ Len(proc[user_id].granted) >= proc[user_id].target
  /\ proc' = [proc EXCEPT ![user_id].pc = "done"]
  /\ last' = NoCall
  /\ UNCHANGED <<program, store, today, outcomes, claims>>

(***************************************************************************)
(* Multi-key batch scripts: BATCH_CLAIM_OPTIMIZED_LUA (locust_v2.py) and   *)
(* GRANT_WHAT_IS_AVAILABLE_LUA (offerings_lua/reference/script_v1.py).     *)
(* KEYS is { offer1_key, user1_key, offer2_key, user2_key, ... }.          *)
(***************************************************************************)
\* config.get('global_cap', 1)
GlobalCapOrDefault(config) ==
  IF config.global_cap = NoCap THEN 1 ELSE config.global_cap

\* f"user_offer:{user_id}:{offer['offer_id']}:{current_date_str}"
UserKeyPlain(user_id, offer_id, day) ==
  <<Lit("user_offer"), Lit(user_id), Lit(offer_id), Lit(DateStr(day))>>

\* first loop of BATCH_CLAIM_OPTIMIZED_LUA from offer i on: the indices of the
\* offers whose two counts, as MGET returned them, are below their caps,
\* until grant_limit of them are found
RECURSIVE ValidOfferIndices(_, _, _, _, _)
ValidOfferIndices_LimitOffByOne(all_current_counts, ARGV, num_offers, i, granted_count) ==
  LET grant_limit == ARGV[Len(ARGV) - 1]
      offer_key_index == (i * 2) - 1
      user_key_index == i * 2
  IN IF i > num_offers \/ granted_count > grant_limit
       THEN <<>>
       ELSE IF /\ all_current_counts[offer_key_index] < ARGV[offer_key_index]
               /\ all_current_counts[user_key_index] < ARGV[user_key_index]
              THEN <<i>> \o ValidOfferIndices(all_current_counts, ARGV, num_offers,
                                              i + 1, granted_count + 1)
              ELSE ValidOfferIndices(all_current_counts, ARGV, num_offers,
                                     i + 1, granted_count)

ValidOfferIndices(all_current_counts, ARGV, num_offers, i, granted_count) ==
  LET grant_limit == ARGV[Len(ARGV) - 1]
      offer_key_index == (i * 2) - 1
      user_key_index == i * 2
  IN IF i > num_offers \/ granted_count >= grant_limit
       THEN <<>>
       ELSE IF /\ all_current_counts[offer_key_index] < ARGV[offer_key_index]
               /\ all_current_counts[user_key_index] < ARGV[user_key_index]
              THEN <<i>> \o ValidOfferIndices(all_current_counts, ARGV, num_offers,
                                              i + 1, granted_count + 1)
              ELSE ValidOfferIndices(all_current_counts, ARGV, num_offers,
                                     i + 1, granted_count)

\* the INCR / EXPIREAT block of both batch scripts for the offer at index i
GrantOfferAt(s, KEYS, expire_at_timestamp, i) ==
  LET offer_key == KEYS[(i * 2) - 1]
      user_key == KEYS[i * 2]
      s1 == INCR(s, offer_key)
      s2 == INCR(s1, user_key)
      s3 == IF s2[offer_key].val = 1
              THEN EXPIREAT(s2, offer_key, expire_at_timestamp) ELSE s2
  IN IF s3[user_key].val = 1
       THEN EXPIREAT(s3, user_key, expire_at_timestamp) ELSE s3

\* second loop of BATCH_CLAIM_OPTIMIZED_LUA over valid_offer_indices
RECURSIVE GrantValidOffers(_, _, _, _)
GrantValidOffers(s, KEYS, expire_at_timestamp, valid_offer_indices) ==
  IF valid_offer_indices = <<>>
    THEN Reply(s, <<>>)
    ELSE LET i == Head(valid_offer_indices)
             r == GrantValidOffers(GrantOfferAt(s, KEYS, expire_at_timestamp, i),
                                   KEYS, expire_at_timestamp, Tail(valid_offer_indices))
         IN Reply(r.store, <<KEYS[(i * 2) - 1]>> \o r.ret)

BATCH_CLAIM_OPTIMIZED_LUA(s, KEYS, ARGV) ==
  LET all_current_counts == [i \in 1..Len(KEYS) |-> OrZero(GET(s, KEYS[i]))]
      valid_offer_indices ==
        ValidOfferIndices(all_current_counts, ARGV, Len(KEYS) \div 2, 1, 0)
  IN GrantValidOffers(s, KEYS, ARGV[Len(ARGV)], valid_offer_indices)

\* the loop of GRANT_WHAT_IS_AVAILABLE_LUA from offer i on
RECURSIVE GrantAvailableFrom(_, _, _, _)
GrantAvailableFrom(s, KEYS, ARGV, i) ==
  IF i > Len(KEYS) \div 2
    THEN Reply(s, <<>>)
    ELSE LET offer_key == KEYS[(i * 2) - 1]
             user_key == KEYS[i * 2]
             offer_count == OrZero(GET(s, offer_key))
             user_count == OrZero(GET(s, user_key))
         IN IF offer_count < ARGV[(i * 2) - 1] /\ user_count < ARGV[i * 2]
              THEN LET r == GrantAvailableFrom(GrantOfferAt(s, KEYS, ARGV[Len(ARGV)], i),
                                               KEYS, ARGV, i + 1)
                   IN Reply(r.store, <<offer_key>> \o r.ret)
              ELSE GrantAvailableFrom(s, KEYS, ARGV, i + 1)

GRANT_WHAT_IS_AVAILABLE_LUA(s, KEYS, ARGV) == GrantAvailableFrom(s, KEYS, ARGV, 1)

\* a client whose task has run: user_id = str(ObjectId()) is never used again
Used == [pc |-> "used"]

\* random.sample(ALL_OFFER_IDS, k=offers_to_sample_count)
OfferSamples ==
  UNION {ListPrefixes(ALL_OFFER_IDS, k) : k \in 1..Cardinality(ALL_OFFER_IDS)}

GrantLimits == 1..2

\* keys_list of both callers for a list of offer ids
KeysListOf(user_id, offer_ids) ==
  [i \in 1..(2 * Len(offer_ids)) |->
     IF i % 2 = 1
       THEN GlobalKeyPlain(offer_ids[(i + 1) \div 2], today)
       ELSE IF program = "locust_v2"
              THEN UserKeyUserTagged(user_id, offer_ids[i \div 2], today)
              ELSE UserKeyPlain(user_id, offer_ids[i \div 2], today)]

\* locust_v2.claim_offer_bundle_task: one call of the batch script for a
\* fresh user id and a sample of the catalog
claim_offer_bundle_task(user_id, offers_to_try_ids, grant_limit) ==
  /\ program = "locust_v2"
  /\ MayClaim
  /\ proc[user_id] = Idle
  /\ LET keys_list == KeysListOf(user_id, offers_to_try_ids)
         caps == [i \in 1..(2 * Len(offers_to_try_ids)) |->
                    IF i % 2 = 1
                      THEN GlobalCapOrDefault(OFFER_CONFIGS[offers_to_try_ids[(i + 1) \div 2]])
                      ELSE UserCapOrDefault(OFFER_CONFIGS[offers_to_try_ids[i \div 2]])]
         args_list == caps \o <<grant_limit, OnStartExpireAt(today)>>
         r == BATCH_CLAIM_OPTIMIZED_LUA(store, keys_list, args_list)
     IN /\ store' = r.store
        /\ last' = Call("batch", keys_list, args_list, r.ret)
  /\ proc' = [proc EXCEPT ![user_id] = Used]
  /\ claims' = claims + 1
  /\ UNCHANGED <<program, today, outcomes>>

\* the entry of an offer in offers_db.json: offer_id, offer_cap, user_cap
OfferEntry(offer_id) ==
  [offer_id |-> offer_id,
   offer_cap |-> GlobalCapOrDefault(OFFER_CONFIGS[offer_id]),
   user_cap |-> UserCapOrDefault(OFFER_CONFIGS[offer_id])]

\* the offers lists of a user in offers_db.json
OfferEntryLists ==
  {[i \in DOMAIN ids |-> OfferEntry(ids[i])] : ids \in OfferSamples}

\* script_v1.claim_offers_for_user
claim_offers_for_user(user_id, offers_to_claim) ==
  /\ program = "script_v1"
  /\ MayClaim
  /\ LET offer_ids == [i \in DOMAIN offers_to_claim |-> offers_to_claim[i].offer_id]
         keys_list == KeysListOf(user_id, offer_ids)
         caps == [i \in 1..(2 * Len(offers_to_claim)) |->
                    IF i % 2 = 1
                      THEN offers_to_claim[(i + 1) \div 2].offer_cap
                      ELSE offers_to_claim[i \div 2].user_cap]
         args_list == Append(caps, OnStartExpireAt(today))
         r == GRANT_WHAT_IS_AVAILABLE_LUA(store, keys_list, args_list)
     IN /\ store' = r.store
        /\ last' = Call("grant_available", keys_list, args_list, r.ret)
  /\ claims' = claims + 1
  /\ UNCHANGED <<program, today, outcomes, proc>>

\* the client whose runs are followed, and the client claiming beside it
Runner == "u1"
OtherClients == TwoClients \ {Runner}

\* The loop body of the claim function in another client, for one offer: one
\* script call (locust_v3, whose claim is two calls, has none here).
OtherClientClaim(user_id, offer_id) ==
  /\ program \in (SecurePrograms \cup StreamPrograms) \ {"locust_v3"}
  /\ MayClaim
  /\ LET call == ClaimCallOf(user_id, offer_id, today, OnStartExpireAt(today))
     IN /\ call # NoCall
        /\ LET r == RunScript(store, call)
           IN /\ store' = r.store
              /\ last' = Call(call.script, call.keys, call.argv, r.ret)
  /\ claims' = claims + 1
  /\ UNCHANGED <<program, today, outcomes, proc>>

\* the script call _claim_offers_pipelined_incr_first queues for a BOTH offer
PipelinedCallOf(user_id, offer_id, day, expire_at_timestamp) ==
  LET config == ConfigOf(offer_id)
  IN Call("both",
          <<GlobalKeyOfferTagged(offer_id, day), UserKeyOfferTagged(offer_id, user_id, day)>>,
          <<config.global_cap, UserCapOrDefault(config), expire_at_timestamp>>,
          "none")

\* the offers of a batch for which a script is queued on the pipeline: those
\* with a configuration of type BOTH, in batch order
QueuedOf(batch_to_try) ==
  LET IsQueued(offer_id) == ConfigOf(offer_id).type = "BOTH"
  IN SelectSeq(batch_to_try, IsQueued)

\* for offer_id, result in zip(batch_to_try, results):
\*     if result == b"SUCCESS": claimed_set.add(offer_id)
ZipClaimed(batch_to_try, results) ==
  LET len == IF Len(batch_to_try) < Len(results) THEN Len(batch_to_try) ELSE Len(results)
  IN {batch_to_try[i] : i \in {j \in 1..len : results[j] = "SUCCESS"}}

\* _claim_offers_pipelined_incr_first is called
StartPipelined(user_id, applicable_offers_ids, n_required, start_day) ==
  /\ program = "one_node_locust"
  /\ MayClaim
  /\ ~InRun(user_id)
  /\ proc' = [proc EXCEPT ![user_id] =
                NewRun("pipe", applicable_offers_ids, n_required, start_day)]
  /\ last' = NoCall
  /\ claims' = claims + 1
  /\ UNCHANGED <<program, store, today, outcomes>>

\* _claim_offers_pipelined_incr_first, from the replies of one pipeline to the
\* execute() of the next: the zip loop over the batch just executed, then the
\* loop ends or the next batch is cut and its scripts are queued
PipelinedLoop(user_id) ==
  /\ program = "one_node_locust"
  /\ proc[user_id].pc = "pipe"
  /\ proc[user_id].queued = <<>>
  /\ LET p == proc[user_id]
         claimed_set == p.claimed_set \cup ZipClaimed(p.batch_to_try, p.results)
         needed_count == p.target - Cardinality(claimed_set)
         available_to_try == Range(p.candidates) \ p.attempted_set
     IN IF \/ p.attempts >= p.target + 5
           \/ Cardinality(claimed_set) >= p.target
           \/ available_to_try = {}
          THEN proc' = [proc EXCEPT ![user_id] =
                 [p EXCEPT !.pc = "done", !.claimed_set = claimed_set,
                           !.batch_to_try = <<>>, !.results = <<>>]]
          ELSE \E batch_to_try \in ListPrefixes(available_to_try, needed_count) :
                 proc' = [proc EXCEPT ![user_id] =
                   [p EXCEPT !.claimed_set = claimed_set,
                             !.attempts = p.attempts + 1,
                             !.attempted_set = p.attempted_set \cup Range(batch_to_try),
                             !.batch_to_try = batch_to_try,
                             !.passed = p.passed \o batch_to_try,
                             !.queued = QueuedOf(batch_to_try),
                             !.results = <<>>]]
  /\ last' = NoCall
  /\ UNCHANGED <<program, store, today, outcomes, claims>>

\* pipe.execute() with transaction=False: the store runs the next queued script
PipelinedExec(user_id) ==
  /\ program = "one_node_locust"
  /\ proc[user_id].pc = "pipe"
  /\ proc[user_id].queued # <<>>
  /\ LET p == proc[user_id]
         offer_id == Head(p.queued)
         call == PipelinedCallOf(user_id, offer_id, p.day, OnStartExpireAt(p.start_day))
         r == RunScript(store, call)
     IN /\ store' = r.store
        /\ last' = Call(call.script, call.keys, call.argv, r.ret)
        /\ proc' = [proc EXCEPT ![user_id] =
             [p EXCEPT !.queued = Tail(p.queued),
                       !.results = Append(p.results, r.ret),
                       !.called = Append(p.called, offer_id),
                       !.raised = p.raised \cup
                                    (IF RaisedIn(r.store, call) = {} THEN {} ELSE {offer_id}),
                       !.successes = IF r.ret = "SUCCESS"
                                       THEN Append(p.successes, offer_id)
                                       ELSE p.successes]]
  /\ UNCHANGED <<program, today, outcomes, claims>>

\* one_node_locust: a pipeline of another client holding one script
OtherClientPipelined(user_id, offer_id) ==
  /\ program = "one_node_locust"
  /\ MayClaim
  /\ ConfigOf(offer_id).type = "BOTH"
  /\ LET call == PipelinedCallOf(user_id, offer_id, today, OnStartExpireAt(today))
         r == RunScript(store, call)
     IN /\ store' = r.store
        /\ last' = Call(call.script, call.keys, call.argv, r.ret)
  /\ claims' = claims + 1
  /\ UNCHANGED <<program, today, outcomes, proc>>

(***************************************************************************)
(* opt_v1.py: _claim_offers_in_batch_iterative.  One call of the single    *)
(* key script per cell; the BOTH branch is the user cell's call, then the  *)
(* global cell's call, then a DECR sent by the client when the global      *)
(* call is denied.  The function takes the user id as its argument, so a   *)
(* client (a session of the load test) is kept apart from the user id it   *)
(* claims for.                                                             *)
(***************************************************************************)
\* f"{{offer}}:{offer_id}:{date_str}": the hash tag is the word offer
GlobalKeyHotspot(offer_id, day) ==
  <<Tag("offer"), Lit(offer_id), Lit(DateStr(day))>>

\* f"user_offer:{offer_id}:{{{user_id}}}:{date_str}"
UserKeyByUser(offer_id, user_id, day) ==
  <<Lit("user_offer"), Lit(offer_id), Tag(user_id), Lit(DateStr(day))>>

\* a client between the calls of a BOTH claim
InClaim(pc, user_id, offer_id, day, expire_timestamp) ==
  [pc |-> pc, user_id |-> user_id, offer_id |-> offer_id, day |-> day,
   expire_timestamp |-> expire_timestamp]

\* a BOTH claim takes up to three calls: the model follows one claim more
\* than MaxClaims, so that a denied claim can follow global_cap grants
OptV1MayClaim == claims <= MaxClaims

\* the loop body for one offer up to its first script call
OptV1First(client, user_id, offer_id, start_day) ==
  /\ program = "opt_v1"
  /\ OptV1MayClaim
  /\ proc[client] = Idle
  /\ LET config == OFFER_CONFIGS[offer_id]
         offer_type == config.type
         expire_at_timestamp == OnStartExpireAt(start_day)
         key == IF offer_type = "GLOBAL_ONLY"
                  THEN GlobalKeyHotspot(offer_id, today)
                  ELSE UserKeyByUser(offer_id, user_id, today)
         cap == IF offer_type = "GLOBAL_ONLY"
                  THEN config.global_cap
                  ELSE UserCapOrDefault(config)
         argv == <<cap, expire_at_timestamp>>
         r == ATOMIC_INCR_THEN_CHECK_SINGLE_LUA(store, <<key>>, argv)
     IN /\ store' = r.store
        /\ last' = Call("single", <<key>>, argv, r.ret)
        /\ claims' = claims + 1
        /\ IF offer_type = "BOTH" /\ r.ret = "SUCCESS"
             THEN /\ proc' = [proc EXCEPT ![client] =
                                InClaim("v1_global", user_id, offer_id, today,
                                        expire_at_timestamp)]
                  /\ UNCHANGED outcomes
             ELSE /\ outcomes' = Record(user_id, offer_id, today,
                                        IF offer_type = "BOTH"
                                          THEN "FAIL_USER_CAP_MET"
                                          ELSE r.ret)
                  /\ UNCHANGED proc
        /\ UNCHANGED <<program, today>>

\* the second script call of the BOTH branch, on the global cell
OptV1Global(client) ==
  /\ program = "opt_v1"
  /\ proc[client].pc = "v1_global"
  /\ LET p == proc[client]
         global_key == GlobalKeyHotspot(p.offer_id, p.day)
         global_cap == OFFER_CONFIGS[p.offer_id].global_cap
         argv == <<global_cap, p.expire_timestamp>>
         r == ATOMIC_INCR_THEN_CHECK_SINGLE_LUA(store, <<global_key>>, argv)
     IN /\ store' = r.store
        /\ last' = Call("single", <<global_key>>, argv, r.ret)
        /\ IF r.ret = "SUCCESS"
             THEN /\ outcomes' = Record(p.user_id, p.offer_id, p.day, "SUCCESS")
                  /\ proc' = [proc EXCEPT ![client] = Idle]
             ELSE /\ proc' = [proc EXCEPT ![client] =
                                InClaim("v1_decr", p.user_id, p.offer_id, p.day,
                                        p.expire_timestamp)]
                  /\ UNCHANGED outcomes
        /\ UNCHANGED <<program, today, claims>>

\* self.client.decr(user_key) after the denial of the global call
OptV1Decr(client) ==
  /\ program = "opt_v1"
  /\ proc[client].pc = "v1_decr"
  /\ LET p == proc[client]
         user_key == UserKeyByUser(p.offer_id, p.user_id, p.day)
     IN /\ store' = DECR(store, user_key)
        /\ last' = Call("decr", <<user_key>>, <<>>, "none")
        /\ outcomes' = Record(p.user_id, p.offer_id, p.day, "FAIL_GLOBAL_CAP_MET")
        /\ proc' = [proc EXCEPT ![client] = Idle]
        /\ UNCHANGED <<program, today, claims>>

\* The store drops a key whose expiry instant has come.  The time of day is
\* not part of the state: the instant has come at some time of the current
\* day when it lies before the end of that day.
KeyExpires(key) ==
  /\ key \in DOMAIN store
  /\ store[key].exp # NoExpiry
  /\ store[key].exp < TicksPerDay * (today + 1)
  /\ store' = [k \in DOMAIN store \ {key} |-> store[k]]
  /\ UNCHANGED <<program, today, outcomes, last, claims, proc>>

(***************************************************************************)
(* opt_v1._secure_n_offers_centralized_hotspot: one MGET of the global     *)
(* keys of the candidates, the candidates read at their cap are dropped,   *)
(* then the loop of batches over the rest; each batch is claimed by        *)
(* _claim_offers_in_batch_iterative with the date of its own call.         *)
(***************************************************************************)
\* the candidates with a global key, in the order of the list
HotspotMgetOffers(applicable_offers_ids) ==
  LET HasKey(offer_id) == ConfigOf(offer_id).type \in {"GLOBAL_ONLY", "BOTH"}
  IN SelectSeq(applicable_offers_ids, HasKey)

\* if count and int(count) >= cap
CappedOfferIds(s, applicable_offers_ids, day) ==
  {o \in Range(HotspotMgetOffers(applicable_offers_ids)) :
     /\ GET(s, GlobalKeyHotspot(o, day)) # Nil
     /\ OrZero(GET(s, GlobalKeyHotspot(o, day))) >= ConfigOf(o).global_cap}

\* the orchestrator is called and sends its MGET; the store answers it or
\* fails it (except RedisError: pass)
HotspotMget(client, applicable_offers_ids, n_required, start_day, mget_fails) ==
  /\ program = "opt_v1"
  /\ MayClaim
  /\ proc[client].pc \in {"idle", "hotspot_done"}
  /\ HotspotMgetOffers(applicable_offers_ids) # <<>> \/ ~mget_fails
  /\ LET keys_to_mget == [i \in DOMAIN HotspotMgetOffers(applicable_offers_ids) |->
                            GlobalKeyHotspot(HotspotMgetOffers(applicable_offers_ids)[i],
                                             today)]
         counts == [i \in DOMAIN keys_to_mget |-> GET(store, keys_to_mget[i])]
         capped_offer_ids == IF mget_fails THEN {}
                             ELSE CappedOfferIds(store, applicable_offers_ids, today)
         IsKept(offer_id) == offer_id \notin capped_offer_ids
     IN /\ proc' = [proc EXCEPT ![client] =
                      [pc |-> "hotspot", user_id |-> client,
                       candidates |-> applicable_offers_ids, target |-> n_required,
                       expire_timestamp |-> OnStartExpireAt(start_day),
                       mget_failed |-> mget_fails,
                       capped_offer_ids |-> capped_offer_ids,
                       filtered_offers |-> SelectSeq(applicable_offers_ids, IsKept),
                       claimed_set |-> {}, attempted_set |-> {}, attempts |-> 0,
                       batch_to_try |-> <<>>, day |-> today, called |-> <<>>]]
        /\ last' = IF keys_to_mget = <<>> THEN NoCall
                   ELSE Call("MGET", keys_to_mget, <<>>,
                             IF mget_fails THEN "RedisError" ELSE counts)
  /\ claims' = claims + 1
  /\ UNCHANGED <<program, store, today, outcomes>>

\* for _ in range(max_attempts): the head of the loop, up to the call of
\* _claim_offers_in_batch_iterative, which reads the date
HotspotLoop(client) ==
  /\ program = "opt_v1"
  /\ proc[client].pc = "hotspot"
  /\ proc[client].batch_to_try = <<>>
  /\ LET p == proc[client]
         needed_count == p.target - Cardinality(p.claimed_set)
         available_to_try == Range(p.filtered_offers) \ p.attempted_set
     IN IF \/ p.attempts >= max_attempts(p.target)
           \/ Cardinality(p.claimed_set) >= p.target
           \/ available_to_try = {}
          THEN proc' = [proc EXCEPT ![client] = [p EXCEPT !.pc = "hotspot_done"]]
          ELSE \E batch_to_try \in ListPrefixes(available_to_try, needed_count) :
                 proc' = [proc EXCEPT ![client] =
                   [p EXCEPT !.attempts = p.attempts + 1,
                             !.attempted_set = p.attempted_set \cup Range(batch_to_try),
                             !.batch_to_try = batch_to_try,
                             !.day = today]]
  /\ last' = NoCall
  /\ UNCHANGED <<program, store, today, outcomes, claims>>

\* the first script call for the head of the batch: the global key of a
\* GLOBAL_ONLY offer, the user key of a USER_ONLY or BOTH offer
HotspotClaim(client) ==
  /\ program = "opt_v1"
  /\ proc[client].pc = "hotspot"
  /\ proc[client].batch_to_try # <<>>
  /\ LET p == proc[client]
         offer_id == Head(p.batch_to_try)
         config == OFFER_CONFIGS[offer_id]
         offer_type == config.type
         key == IF offer_type = "GLOBAL_ONLY"
                  THEN GlobalKeyHotspot(offer_id, p.day)
                  ELSE UserKeyByUser(offer_id, p.user_id, p.day)
         cap == IF offer_type = "GLOBAL_ONLY"
                  THEN config.global_cap
                  ELSE UserCapOrDefault(config)
         argv == <<cap, p.expire_timestamp>>
         r == ATOMIC_INCR_THEN_CHECK_SINGLE_LUA(store, <<key>>, argv)
     IN /\ store' = r.store
        /\ last' = Call("single", <<key>>, argv, r.ret)
        /\ IF offer_type = "BOTH" /\ r.ret = "SUCCESS"
             THEN /\ proc' = [proc EXCEPT ![client] =
                                [p EXCEPT !.pc = "hotspot_global",
                                          !.called = Append(p.called, offer_id)]]
                  /\ UNCHANGED outcomes
             ELSE /\ outcomes' = Record(p.user_id, offer_id, p.day,
                                        IF offer_type = "BOTH"
                                          THEN "FAIL_USER_CAP_MET"
                                          ELSE r.ret)
                  /\ proc' = [proc EXCEPT ![client] =
                                [p EXCEPT !.batch_to_try = Tail(p.batch_to_try),
                                          !.called = Append(p.called, offer_id),
                                          !.claimed_set =
                                            IF r.ret = "SUCCESS"
                                              THEN p.claimed_set \cup {offer_id}
                                              ELSE p.claimed_set]]
  /\ UNCHANGED <<program, today, claims>>

\* the second script call of the BOTH branch, on the global key
HotspotGlobal(client) ==
  /\ program = "opt_v1"
  /\ proc[client].pc = "hotspot_global"
  /\ LET p == proc[client]
         offer_id == Head(p.batch_to_try)
         global_key == GlobalKeyHotspot(offer_id, p.day)
         argv == <<OFFER_CONFIGS[offer_id].global_cap, p.expire_timestamp>>
         r == ATOMIC_INCR_THEN_CHECK_SINGLE_LUA(store, <<global_key>>, argv)
     IN /\ store' = r.store
        /\ last' = Call("single", <<global_key>>, argv, r.ret)
        /\ IF r.ret = "SUCCESS"
             THEN /\ outcomes' = Record(p.user_id, offer_id, p.day, "SUCCESS")
                  /\ proc' = [proc EXCEPT ![client] =
                                [p EXCEPT !.pc = "hotspot",
                                          !.batch_to_try = Tail(p.batch_to_try),
                                          !.claimed_set = p.claimed_set \cup {offer_id}]]
             ELSE /\ proc' = [proc EXCEPT ![client] = [p EXCEPT !.pc = "hotspot_decr"]]
                  /\ UNCHANGED outcomes
  /\ UNCHANGED <<program, today, claims>>

\* self.client.decr(user_key) after the denial of the global call
HotspotDecr(client) ==
  /\ program = "opt_v1"
  /\ proc[client].pc = "hotspot_decr"
  /\ LET p == proc[client]
         offer_id == Head(p.batch_to_try)
         user_key == UserKeyByUser(offer_id, p.user_id, p.day)
     IN /\ store' = DECR(store, user_key)
        /\ last' = Call("decr", <<user_key>>, <<>>, "none")
        /\ outcomes' = Record(p.user_id, offer_id, p.day, "FAIL_GLOBAL_CAP_MET")
        /\ proc' = [proc EXCEPT ![client] =
                      [p EXCEPT !.pc = "hotspot",
                                !.batch_to_try = Tail(p.batch_to_try)]]
  /\ UNCHANGED <<program, today, claims>>

(***************************************************************************)
(* The two dual-cell strategies side by side: the same claim is put to     *)
(* ATOMIC_CLAIM_BOTH_LUA on the keys of v4 and to                          *)
(* ATOMIC_INCR_THEN_CHECK_BOTH_LUA (multi_node_locust.py and, with the     *)
(* same text, one_node_locust.py) on the keys of one_node_locust.  The two *)
(* key schemes are disjoint, so one store holds the cells of both.         *)
(***************************************************************************)
StrategyCaps == 1..2

EvalBothStrategies(user_id, offer_id, global_cap, user_cap, start_day) ==
  /\ program = "both_strategies"
  /\ MayClaim
  /\ OFFER_CONFIGS[offer_id].type = "BOTH"
  /\ LET argv == <<global_cap, user_cap, OnStartExpireAt(start_day)>>
         check_keys == <<GlobalKeyTagged(offer_id, today),
                         UserKeyTagged(offer_id, user_id, today)>>
         incr_keys == <<GlobalKeyOfferTagged(offer_id, today),
                        UserKeyOfferTagged(offer_id, user_id, today)>>
         r1 == ATOMIC_CLAIM_BOTH_LUA(store, check_keys, argv)
         r2 == ATOMIC_INCR_THEN_CHECK_BOTH_LUA(r1.store, incr_keys, argv)
     IN /\ store' = r2.store
        /\ outcomes' = Record(user_id, offer_id, today, r1.ret)
        /\ last' = Call("both_strategies", check_keys \o incr_keys, argv,
                        <<r1.ret, r2.ret>>)
        /\ claims' = claims + 1
        /\ UNCHANGED <<program, today, proc>>

\* one dual-cell claim put to the three dual-cell scripts from the same cell
\* values; the store goes on from the cells one of the three has left
DualScripts == 1..3

EvalDualScripts(user_id, offer_id, global_cap, user_cap, start_day, applied) ==
  /\ program = "dual_scripts"
  /\ MayClaim
  /\ OFFER_CONFIGS[offer_id].type = "BOTH"
  /\ LET argv == <<global_cap, user_cap, OnStartExpireAt(start_day)>>
         keys == <<GlobalKeyTagged(offer_id, today),
                   UserKeyTagged(offer_id, user_id, today)>>
         r == <<ATOMIC_CLAIM_BOTH_LUA(store, keys, argv),
                ATOMIC_INCR_THEN_CHECK_BOTH_LUA(store, keys, argv),
                ATOMIC_CLAIM_BOTH_REDUCED_DECR_LUA(store, keys, argv)>>
     IN /\ store' = r[applied].store
        /\ outcomes' = Record(user_id, offer_id, today, r[applied].ret)
        /\ last' = Call("dual_scripts", keys, argv, <<r[1].ret, r[2].ret, r[3].ret>>)
        /\ claims' = claims + 1
        /\ UNCHANGED <<program, today, proc>>

(***************************************************************************)
(* reference/script_v2.py: claim_offers_flexible.  Pipeline 1 holds one    *)
(* script per configured offer of the list, its replies are then read by   *)
(* position in the list; pipeline 2 holds the INCRs of the global keys of  *)
(* the BOTH offers whose user script succeeded.                            *)
(***************************************************************************)
\* GLOBAL_ONLY_LUA_SCRIPT: the reply of GET is compared with the cap without
\* tonumber; Lua raises "attempt to compare string with number" when the
\* key exists, and compares 0 when it does not
GLOBAL_ONLY_LUA_SCRIPT(s, KEYS, ARGV) ==
  LET offer_key == KEYS[1]
      offer_cap == ARGV[1]
      expire_at_timestamp == ARGV[2]
  IN IF GET(s, offer_key) # Nil
       THEN Reply(s, "ResponseError")
       ELSE IF 0 < offer_cap
              THEN LET s1 == INCR(s, offer_key)
                   IN Reply(IF s1[offer_key].val = 1
                              THEN EXPIREAT(s1, offer_key, expire_at_timestamp)
                              ELSE s1,
                            "SUCCESS")
              ELSE Reply(s, "FAIL_CAP_MET")

\* the script pipeline 1 queues for a configured offer
FlexibleCallOf(user_id, offer_id, day) ==
  LET config == ConfigOf(offer_id)
      expire_at_timestamp == NextDayAt(day, 1)
  IN IF config.type = "GLOBAL_ONLY"
       THEN Call("global", <<GlobalKeyPlain(offer_id, day)>>,
                 <<config.global_cap, expire_at_timestamp>>, "none")
       ELSE Call("user", <<UserKeyUserTagged(user_id, offer_id, day)>>,
                 <<config.user_cap, expire_at_timestamp>>, "none")

\* the offers of the list for which pipeline 1 holds a script, in list order
FlexibleQueued(offers_to_try) ==
  LET IsConfigured(offer_id) == ConfigOf(offer_id) # NoConfig
  IN SelectSeq(offers_to_try, IsConfigured)

\* for i, offer_id in enumerate(offers_to_try): the loop over the replies of
\* pipeline 1 from index i on.  pipeline1_results[i] raises IndexError past
\* the end of the replies, config['type'] raises TypeError for config None.
RECURSIVE ProcessPipeline1(_, _, _, _, _)
ProcessPipeline1(offers_to_try, pipeline1_results, i, results_summary, offers_for_global_incr) ==
  IF i > Len(offers_to_try)
    THEN [raised |-> "none", results_summary |-> results_summary,
          offers_for_global_incr |-> offers_for_global_incr]
    ELSE LET offer_id == offers_to_try[i]
             config == ConfigOf(offer_id)
         IN IF i > Len(pipeline1_results)
              THEN [raised |-> "IndexError", results_summary |-> results_summary,
                    offers_for_global_incr |-> offers_for_global_incr]
              ELSE IF pipeline1_results[i] = "SUCCESS"
                     THEN IF config = NoConfig
                            THEN [raised |-> "TypeError",
                                  results_summary |-> results_summary,
                                  offers_for_global_incr |-> offers_for_global_incr]
                            ELSE ProcessPipeline1(
                                   offers_to_try, pipeline1_results, i + 1,
                                   [o \in DOMAIN results_summary \cup {offer_id} |->
                                      IF o = offer_id THEN "SUCCESS"
                                      ELSE results_summary[o]],
                                   IF config.type = "BOTH"
                                     THEN Append(offers_for_global_incr, offer_id)
                                     ELSE offers_for_global_incr)
                     ELSE ProcessPipeline1(
                            offers_to_try, pipeline1_results, i + 1,
                            [o \in DOMAIN results_summary \cup {offer_id} |->
                               IF o = offer_id THEN "FAIL"
                               ELSE results_summary[o]],
                            offers_for_global_incr)

\* claim_offers_flexible is called: pipeline 1 is filled
FlexibleStart(user_id, offers_to_try) ==
  /\ program = "script_v2"
  /\ MayClaim
  /\ proc[user_id].pc \in {"idle", "returned", "raised"}
  /\ proc' = [proc EXCEPT ![user_id] =
                [pc |-> "pipeline1", offers_to_try |-> offers_to_try, day |-> today,
                 queued |-> FlexibleQueued(offers_to_try),
                 pipeline1_results |-> <<>>, raised |-> "none",
                 results_summary |-> <<>>, offers_for_global_incr |-> <<>>]]
  /\ last' = NoCall
  /\ claims' = claims + 1
  /\ UNCHANGED <<program, store, today, outcomes>>

\* pipe.execute() with transaction=False: the store runs the next script
FlexibleExec(user_id) ==
  /\ program = "script_v2"
  /\ proc[user_id].pc = "pipeline1"
  /\ Len(proc[user_id].pipeline1_results) < Len(proc[user_id].queued)
  /\ LET p == proc[user_id]
         offer_id == p.queued[Len(p.pipeline1_results) + 1]
         call == FlexibleCallOf(user_id, offer_id, p.day)
         r == IF call.script = "global"
                THEN GLOBAL_ONLY_LUA_SCRIPT(store, call.keys, call.argv)
                ELSE USER_ONLY_LUA_SCRIPT(store, call.keys, call.argv)
     IN /\ store' = r.store
        /\ last' = Call(call.script, call.keys, call.argv, r.ret)
        /\ proc' = [proc EXCEPT ![user_id].pipeline1_results =
                      Append(p.pipeline1_results, r.ret)]
  /\ UNCHANGED <<program, today, outcomes, claims>>

\* pipe.execute() returns or raises the first error reply; then the loop
\* over the replies
FlexibleProcess(user_id) ==
  /\ program = "script_v2"
  /\ proc[user_id].pc = "pipeline1"
  /\ Len(proc[user_id].pipeline1_results) = Len(proc[user_id].queued)
  /\ LET p == proc[user_id]
         r == ProcessPipeline1(p.offers_to_try, p.pipeline1_results, 1, <<>>, <<>>)
     IN proc' = [proc EXCEPT ![user_id] =
          IF "ResponseError" \in Range(p.pipeline1_results)
            THEN [p EXCEPT !.pc = "raised", !.raised = "ResponseError"]
            ELSE IF r.raised # "none"
                   THEN [p EXCEPT !.pc = "raised", !.raised = r.raised]
                   ELSE [p EXCEPT !.pc = "pipeline2",
                                  !.results_summary = r.results_summary,
                                  !.offers_for_global_incr = r.offers_for_global_incr]]
  /\ last' = NoCall
  /\ UNCHANGED <<program, store, today, outcomes, claims>>

\* pipe2.execute(): the store runs the next INCR of a global key
FlexibleIncr(user_id) ==
  /\ program = "script_v2"
  /\ proc[user_id].pc = "pipeline2"
  /\ proc[user_id].offers_for_global_incr # <<>>
  /\ LET p == proc[user_id]
         global_key == GlobalKeyPlain(Head(p.offers_for_global_incr), p.day)
         s1 == INCR(store, global_key)
     IN /\ store' = s1
        /\ last' = Call("INCR", <<global_key>>, <<>>, <<s1[global_key].val>>)
        /\ proc' = [proc EXCEPT ![user_id].offers_for_global_incr =
                      Tail(p.offers_for_global_incr)]
  /\ UNCHANGED <<program, today, outcomes, claims>>

\* return successfully_granted
FlexibleReturn(user_id) ==
  /\ program = "script_v2"
  /\ proc[user_id].pc = "pipeline2"
  /\ proc[user_id].offers_for_global_incr = <<>>
  /\ proc' = [proc EXCEPT ![user_id].pc = "returned"]
  /\ last' = NoCall
  /\ UNCHANGED <<program, store, today, outcomes, claims>>

(***************************************************************************)
(* Initial state and specifications.                                       *)
(***************************************************************************)
InitStore ==
  /\ store = <<>>
  /\ today = 1
  /\ outcomes = <<>>
  /\ last = NoCall
  /\ claims = 0
  /\ proc = [u \in Users |-> Idle]

\* v4 / batch_locust
InitCheckThenIncr == program = "v4" /\ InitStore

NextCheckThenIncr ==
  \/ Midnight
  \/ \E u \in Users, o \in ALL_OFFER_IDS, sd \in StartDays(today) :
       ClaimCheckThenIncr(u, o, sd)

SpecCheckThenIncr == InitCheckThenIncr /\ [][NextCheckThenIncr]_vars

\* multi_node_locust / one_node_locust
InitIncrThenCheck == program = "multi_node_locust" /\ InitStore

NextIncrThenCheck ==
  \/ Midnight
  \/ \E u \in Users, o \in ALL_OFFER_IDS, sd \in StartDays(today) :
       ClaimIncrThenCheck(u, o, sd)

SpecIncrThenCheck == InitIncrThenCheck /\ [][NextIncrThenCheck]_vars

\* opt_v2
InitOptV2 == program = "opt_v2" /\ InitStore

NextOptV2 ==
  \/ Midnight
  \/ \E u \in Users, o \in ALL_OFFER_IDS, sd \in StartDays(today) :
       ClaimOptV2(u, o, sd)

SpecOptV2 == InitOptV2 /\ [][NextOptV2]_vars

\* the single-key check-then-increment script
InitSingleKey == program = "single_key" /\ InitStore

NextSingleKey ==
  \/ Midnight
  \/ \E u \in Users, o \in ALL_OFFER_IDS, c \in SingleKeyCaps, sd \in StartDays(today) :
       EvalSingleKey(u, o, c, sd)

SpecSingleKey == InitSingleKey /\ [][NextSingleKey]_vars

\* the cells of a dual-scope offer, the single-key script and both
\* increment-then-check scripts
InitGrantScripts ==
  /\ program \in {"v4", "single_key", "multi_node_locust"}
  /\ InitStore

NextGrantScripts ==
  \/ Midnight
  \/ \E u \in Users, o \in ALL_OFFER_IDS, sd \in StartDays(today) :
       ClaimCheckThenIncr(u, o, sd)
  \/ \E u \in Users, o \in ALL_OFFER_IDS, c \in SingleKeyCaps, sd \in StartDays(today) :
       EvalSingleKey(u, o, c, sd)
  \/ \E u \in Users, o \in ALL_OFFER_IDS, sd \in StartDays(today) :
       ClaimIncrThenCheck(u, o, sd)

SpecGrantScripts == InitGrantScripts /\ [][NextGrantScripts]_vars

\* the check-then-increment scripts of v4 / batch_locust
InitCheckScripts ==
  /\ program \in {"v4", "single_key"}
  /\ InitStore

NextCheckScripts ==
  \/ Midnight
  \/ \E u \in Users, o \in ALL_OFFER_IDS, sd \in StartDays(today) :
       ClaimCheckThenIncr(u, o, sd)
  \/ \E u \in Users, o \in ALL_OFFER_IDS, c \in SingleKeyCaps, sd \in StartDays(today) :
       EvalSingleKey(u, o, c, sd)

SpecCheckScripts == InitCheckScripts /\ [][NextCheckScripts]_vars

\* the check-then-increment scripts: v4 / batch_locust and
\* locust_iterative_atomic
InitExpiryOnce ==
  /\ program \in {"v4", "single_key", "locust_iterative_atomic"}
  /\ InitStore

NextExpiryOnce ==
  \/ Midnight
  \/ \E u \in Users, o \in ALL_OFFER_IDS, sd \in StartDays(today) :
       ClaimCheckThenIncr(u, o, sd)
  \/ \E u \in Users, o \in ALL_OFFER_IDS, c \in SingleKeyCaps, sd \in StartDays(today) :
       EvalSingleKey(u, o, c, sd)
  \/ \E u \in Users, o \in ALL_OFFER_IDS, ud \in UtcDays(today) :
       IterativeAtomicFirst(u, o, ud)
  \/ \E u \in Users : IterativeAtomicGlobal(u)

SpecExpiryOnce == InitExpiryOnce /\ [][NextExpiryOnce]_vars

\* locust_cluster
InitOneByOne == program = "locust_cluster" /\ InitStore

NextOneByOne ==
  \/ Midnight
  \/ \E u \in Users, o \in ALL_OFFER_IDS, ud \in UtcDays(today),
          rs \in OneByOneRandomSeconds :
       OneByOneGet(u, o, ud, rs)
  \/ \E u \in Users : OneByOneGetOffer(u)
  \/ \E u \in Users : OneByOneIncr(u)
  \/ \E u \in Users : OneByOneExpireAt(u)

SpecOneByOne == InitOneByOne /\ [][NextOneByOne]_vars

\* locust_sharded, two clients
InitOneByOneSharded == program = "locust_sharded" /\ InitStore

NextOneByOneSharded ==
  \/ Midnight
  \/ \E u \in TwoClients, o \in ALL_OFFER_IDS, ud \in UtcDays(today),
          rs \in OneByOneRandomSeconds :
       OneByOneGet(u, o, ud, rs)
  \/ \E u \in TwoClients : OneByOneGetOffer(u)
  \/ \E u \in TwoClients : OneByOneIncr(u)
  \/ \E u \in TwoClients : OneByOneExpireAt(u)

SpecOneByOneSharded == InitOneByOneSharded /\ [][NextOneByOneSharded]_vars

\* locust_v3 and offerings_lua/locust.py
InitPlainIncr ==
  /\ program \in {"locust_v3", "offerings_lua"}
  /\ InitStore

NextPlainIncr ==
  \/ Midnight
  \/ \E u \in Users, o \in ALL_OFFER_IDS, sd \in StartDays(today) :
       ClaimClusterSafe(u, o, sd)
  \/ \E u \in Users : ClaimClusterSafeIncr(u)
  \/ \E u \in Users, o \in ALL_OFFER_IDS, rs \in RandomSeconds :
       claim_offers_flexible(u, o, rs)
  \/ \E u \in Users : claim_offers_flexible_pipe2(u)

SpecPlainIncr == InitPlainIncr /\ [][NextPlainIncr]_vars


\* _secure_n_offers of batch_locust, multi_node_locust and locust_v3: one
\* client calls it again and again within a day, another client claims single
\* offers in between
InitSecure ==
  /\ program \in SecurePrograms
  /\ InitStore

NextSecure ==
  \/ \E c \in CandidateLists, n \in Targets : StartSecure(Runner, c, n, today)
  \/ SecureLoop(Runner)
  \/ SecureClaim(Runner)
  \/ SecureGlobalIncr(Runner)
  \/ \E u \in OtherClients, o \in ALL_OFFER_IDS : OtherClientClaim(u, o)

SpecSecure == InitSecure /\ [][NextSecure]_vars

\* the streaming loops of v4 and opt_v2: one client calls the loop again and
\* again within a day, another client claims single offers in between
InitStream ==
  /\ program \in StreamPrograms
  /\ InitStore

NextStream ==
  \/ \E c \in CandidateLists, n \in Targets : StartStream(Runner, c, n, today)
  \/ StreamClaim(Runner)
  \/ StreamReturn(Runner)
  \/ \E u \in OtherClients, o \in ALL_OFFER_IDS : OtherClientClaim(u, o)

SpecStream == InitStream /\ [][NextStream]_vars

\* the runs of _secure_n_offers and of the streaming loops together
InitRuns ==
  /\ program \in SecurePrograms \cup StreamPrograms
  /\ InitStore

NextRuns ==
  \/ NextSecure
  \/ NextStream

SpecRuns == InitRuns /\ [][NextRuns]_vars

\* _claim_offers_pipelined_incr_first of one_node_locust: one client calls it
\* again and again within a day, another client claims in between
InitPipelined ==
  /\ program = "one_node_locust"
  /\ InitStore

NextPipelined ==
  \/ \E c \in CandidateLists, n \in Targets : StartPipelined(Runner, c, n, today)
  \/ PipelinedLoop(Runner)
  \/ PipelinedExec(Runner)
  \/ \E u \in OtherClients, o \in ALL_OFFER_IDS : OtherClientPipelined(u, o)

SpecPipelined == InitPipelined /\ [][NextPipelined]_vars

\* the multi-key batch scripts of locust_v2 and script_v1
InitBatchScripts ==
  /\ program \in {"locust_v2", "script_v1"}
  /\ InitStore

NextBatchScripts ==
  \/ Midnight
  \/ \E u \in Users, ids \in OfferSamples, n \in GrantLimits :
       claim_offer_bundle_task(u, ids, n)
  \/ \E u \in TwoClients, offers \in OfferEntryLists : claim_offers_for_user(u, offers)

SpecBatchScripts == InitBatchScripts /\ [][NextBatchScripts]_vars

\* locust_v2 alone: the bundle tasks of the users over the days
InitBundle ==
  /\ program = "locust_v2"
  /\ InitStore

NextBundle ==
  \/ Midnight
  \/ \E u \in Users, ids \in OfferSamples, n \in GrantLimits :
       claim_offer_bundle_task(u, ids, n)

SpecBundle == InitBundle /\ [][NextBundle]_vars

\* The claim of one offer by any client on any day, in the five programs that
\* call a dual-cell script.
DualCellPrograms ==
  {"v4", "batch_locust", "multi_node_locust", "one_node_locust", "opt_v2"}

InitClaimKeys ==
  /\ program \in DualCellPrograms
  /\ InitStore

NextClaimKeys ==
  \/ Midnight
  \/ \E u \in TwoClients, o \in ALL_OFFER_IDS : OtherClientClaim(u, o)
  \/ \E u \in TwoClients, o \in ALL_OFFER_IDS : OtherClientPipelined(u, o)

SpecClaimKeys == InitClaimKeys /\ [][NextClaimKeys]_vars

\* opt_v1: two clients claim for any user id on one day, keys expire; the
\* offers are those with a global cell
OptV1Offers == {o \in ALL_OFFER_IDS : OFFER_CONFIGS[o].type # "USER_ONLY"}

InitOptV1 ==
  /\ program = "opt_v1"
  /\ store = <<>>
  /\ today \in Days
  /\ outcomes = <<>>
  /\ last = NoCall
  /\ claims = 0
  /\ proc = [u \in Users |-> Idle]

NextOptV1 ==
  \/ \E c \in TwoClients, u \in Users, o \in OptV1Offers, sd \in StartDays(today) :
       OptV1First(c, u, o, sd)
  \/ \E c \in TwoClients : OptV1Global(c)
  \/ \E c \in TwoClients : OptV1Decr(c)
  \/ \E k \in DOMAIN store : KeyExpires(k)

SpecOptV1 == InitOptV1 /\ [][NextOptV1]_vars

\* locust_v3 in best-effort mode: the store may fail any call of a run
InitBestEffort ==
  /\ program = "locust_v3"
  /\ InitStore

NextBestEffort ==
  \/ \E c \in CandidateLists, n \in Targets : StartSecure(Runner, c, n, today)
  \/ SecureLoop(Runner)
  \/ SecureClaim(Runner)
  \/ SecureGlobalIncr(Runner)
  \/ SecureClaimFails(Runner)
  \/ SecureGlobalIncrFails(Runner)

SpecBestEffort == InitBestEffort /\ [][NextBestEffort]_vars

\* the two dual-cell strategies on the same sequence of claims
InitBothStrategies == program = "both_strategies" /\ InitStore

NextBothStrategies ==
  \/ Midnight
  \/ \E u \in Users, o \in ALL_OFFER_IDS, gc \in StrategyCaps, uc \in StrategyCaps,
          sd \in StartDays(today) :
       EvalBothStrategies(u, o, gc, uc, sd)

SpecBothStrategies == InitBothStrategies /\ [][NextBothStrategies]_vars

\* the three dual-cell scripts on the same cells
InitDualScripts == program = "dual_scripts" /\ InitStore

NextDualScripts ==
  \E u \in Users, o \in ALL_OFFER_IDS, gc \in StrategyCaps, uc \in StrategyCaps,
     sd \in StartDays(today), a \in DualScripts :
    EvalDualScripts(u, o, gc, uc, sd, a)

SpecDualScripts == InitDualScripts /\ [][NextDualScripts]_vars

\* opt_v1: one client, started on the day, runs the orchestrator again and
\* again, over midnight too; another client claims single offers for other
\* users in between
InitHotspot == program = "opt_v1" /\ InitStore

\* random.sample(ALL_OFFER_IDS, k=k), of the offers with a global cell
HotspotSamples ==
  UNION {ListPrefixes(OptV1Offers, k) : k \in 1..Cardinality(OptV1Offers)}

NextHotspot ==
  \/ Midnight
  \/ \E ids \in HotspotSamples, n \in Targets, f \in BOOLEAN :
       HotspotMget(Runner, ids, n, today, f)
  \/ HotspotLoop(Runner)
  \/ HotspotClaim(Runner)
  \/ HotspotGlobal(Runner)
  \/ HotspotDecr(Runner)
  \/ \E c \in OtherClients, u \in Users \ {Runner}, o \in OptV1Offers :
       OptV1First(c, u, o, today)
  \/ \E c \in OtherClients : OptV1Global(c)
  \/ \E c \in OtherClients : OptV1Decr(c)

SpecHotspot == InitHotspot /\ [][NextHotspot]_vars

\* batch_locust and multi_node_locust with a store that may fail any script
\* call of a run
InitStrict ==
  /\ program \in {"batch_locust", "multi_node_locust"}
  /\ InitStore

NextStrict ==
  \/ \E c \in CandidateLists, n \in Targets : StartSecure(Runner, c, n, today)
  \/ SecureLoop(Runner)
  \/ SecureClaim(Runner)
  \/ SecureClaimRaises(Runner)
  \/ \E u \in OtherClients, o \in ALL_OFFER_IDS : OtherClientClaim(u, o)

SpecStrict == InitStrict /\ [][NextStrict]_vars

\* the runs of _secure_n_offers of the three programs, one client calling it
\* again and again, with a store that answers or fails every call: the loop
\* takes its next step, and a call that was sent returns or raises
\* the runs followed under fairness
MaxFairRuns == 1

InitSecureFair ==
  /\ program \in SecurePrograms
  /\ InitStore

SecureCallEnds(user_id) ==
  \/ SecureClaim(user_id)
  \/ SecureClaimFails(user_id)
  \/ SecureClaimRaises(user_id)
  \/ SecureGlobalIncr(user_id)
  \/ SecureGlobalIncrFails(user_id)

NextSecureFair ==
  \/ /\ claims < MaxFairRuns
     /\ \E c \in CandidateLists, n \in Targets : StartSecure(Runner, c, n, today)
  \/ SecureLoop(Runner)
  \/ SecureCallEnds(Runner)

SpecSecureFair ==
  /\ InitSecureFair
  /\ [][NextSecureFair]_vars
  /\ WF_proc(SecureLoop(Runner))
  /\ WF_proc(SecureCallEnds(Runner))

\* reference/script_v2.claim_offers_flexible, called again and again for one
\* user on one day
InitFlexible == program = "script_v2" /\ InitStore

NextFlexible ==
  \/ \E c \in CandidateLists : FlexibleStart(Runner, c)
  \/ FlexibleExec(Runner)
  \/ FlexibleProcess(Runner)
  \/ FlexibleIncr(Runner)
  \/ FlexibleReturn(Runner)

SpecFlexible == InitFlexible /\ [][NextFlexible]_vars


(***************************************************************************)
(* Properties.                                                             *)
(***************************************************************************)
HasGlobalCap(o) == OFFER_CONFIGS[o].type \in {"GLOBAL_ONLY", "BOTH"}
HasUserCap(o) == OFFER_CONFIGS[o].type \in {"USER_ONLY", "BOTH"}
BothOffers == {o \in ALL_OFFER_IDS : OFFER_CONFIGS[o].type = "BOTH"}

GlobalCapOf(o) == OFFER_CONFIGS[o].global_cap
UserCapOf(o) == UserCapOrDefault(OFFER_CONFIGS[o])

\* the step is a script call of the named script
IsCall(name) == claims' = claims + 1 /\ last'.script = name

Min(a, b) == IF a < b THEN a ELSE b

\* C1: with ATOMIC_CLAIM_BOTH_LUA the SUCCESS outcomes of a BOTH offer on a
\* day never exceed global_cap, those of one (user, offer) never exceed
\* user_cap, and no global or user cell is above its cap.
C1_CapInvariantCheckThenIncr ==
  \A o \in BothOffers, d \in Days :
    /\ OfferGrants(o, d) <= GlobalCapOf(o)
    /\ ValueOf(store, GlobalKeyTagged(o, d)) <= GlobalCapOf(o)
    /\ \A u \in Users :
         /\ UserGrants(u, o, d) <= UserCapOf(o)
         /\ ValueOf(store, UserKeyTagged(o, u, d)) <= UserCapOf(o)

C1_Witness ==
  /\ program = "v4"
  /\ OfferGrants("oB", 1) = GlobalCapOf("oB")
  /\ last.ret = "FAIL_GLOBAL_CAP_MET"
  /\ last.keys[1] = GlobalKeyTagged("oB", 1)

\* C2: with the increment-then-check scripts the SUCCESS outcomes never
\* exceed global_cap for a global cell nor user_cap for a user cell, and
\* between script executions no cell is above its cap.
C2_CapInvariantIncrThenCheck ==
  \A o \in ALL_OFFER_IDS, d \in Days :
    /\ HasGlobalCap(o) =>
         /\ OfferGrants(o, d) <= GlobalCapOf(o)
         /\ ValueOf(store, GlobalKeyTagged(o, d)) <= GlobalCapOf(o)
    /\ HasUserCap(o) =>
         \A u \in Users :
           /\ UserGrants(u, o, d) <= UserCapOf(o)
           /\ ValueOf(store, UserKeyTagged(o, u, d)) <= UserCapOf(o)

C2_Witness ==
  /\ program = "multi_node_locust"
  /\ OfferGrants("oB", 1) = GlobalCapOf("oB")
  /\ last.script = "both"
  /\ last.ret = "FAIL_GLOBAL_CAP_MET"
  /\ last.keys[1] = GlobalKeyTagged("oB", 1)

\* users that have claimed the offer on the day
Claimants(o, d) == {u \in Users : OutcomesOf(u, o, d) # <<>>}

EachClaimedOnce(o, d) == \A u \in Users : Len(OutcomesOf(u, o, d)) <= 1

\* C5: when N distinct users have each claimed a BOTH offer once through
\* ATOMIC_CLAIM_BOTH_LUA, starting from absent cells, exactly
\* min(N, global_cap) claims returned SUCCESS, the others
\* FAIL_GLOBAL_CAP_MET, the global cell is min(N, global_cap) and each
\* successful user's cell is 1.
C5_ExactlyMinGrants ==
  \A o \in BothOffers, d \in Days :
    EachClaimedOnce(o, d) =>
      LET N == Cardinality(Claimants(o, d))
      IN /\ OfferGrants(o, d) = Min(N, GlobalCapOf(o))
         /\ ValueOf(store, GlobalKeyTagged(o, d)) = Min(N, GlobalCapOf(o))
         /\ \A u \in Claimants(o, d) :
              \/ /\ OutcomesOf(u, o, d) = <<"SUCCESS">>
                 /\ ValueOf(store, UserKeyTagged(o, u, d)) = 1
              \/ /\ OutcomesOf(u, o, d) = <<"FAIL_GLOBAL_CAP_MET">>
                 /\ ValueOf(store, UserKeyTagged(o, u, d)) = 0

C5_Witness ==
  /\ program = "v4"
  /\ EachClaimedOnce("oB", 1)
  /\ Cardinality(Claimants("oB", 1)) = 3
  /\ OfferGrants("oB", 1) = 2

\* the cells other than those in keys are the same before and after the step
OtherCellsUnchanged(keys) ==
  \A k \in (DOMAIN store \cup DOMAIN store') \ keys :
    /\ k \in DOMAIN store
    /\ k \in DOMAIN store'
    /\ store'[k] = store[k]

\* C6: a successful single-cell claim (ATOMIC_CLAIM_SINGLE_KEY_LUA) raises
\* its cell by exactly 1, a successful dual-cell claim
\* (ATOMIC_CLAIM_BOTH_LUA, ATOMIC_INCR_THEN_CHECK_BOTH_LUA) raises the global
\* cell and the user cell by exactly 1 each, and every other cell is
\* unchanged.
C6_GrantFrame ==
  [][((IsCall("single") /\ program = "single_key") \/ IsCall("both"))
       /\ last'.ret = "SUCCESS"
     => /\ \A k \in KeysOf(last') : ValueOf(store', k) = ValueOf(store, k) + 1
        /\ OtherCellsUnchanged(KeysOf(last'))]_vars

C6_Witness ==
  /\ program = "multi_node_locust"
  /\ last.script = "both"
  /\ last.ret = "SUCCESS"
  /\ today = 2
  /\ ValueOf(store, last.keys[1]) = 2
  /\ \E k \in DOMAIN store : k \notin KeysOf(last)

\* C7: a denied check-then-increment claim mutates nothing.
\* ATOMIC_CLAIM_SINGLE_KEY_LUA returns FAIL_CAP_MET exactly when
\* count >= cap; ATOMIC_CLAIM_BOTH_LUA returns FAIL_GLOBAL_CAP_MET exactly
\* when global >= global_cap and FAIL_USER_CAP_MET exactly when
\* global < global_cap and user >= user_cap; a denial leaves cells and
\* expiries unchanged.
C7_DenialMutatesNothing ==
  [][/\ (IsCall("single") /\ program = "single_key") =>
          /\ (last'.ret = "FAIL_CAP_MET")
               <=> (ValueOf(store, last'.keys[1]) >= last'.argv[1])
          /\ last'.ret = "FAIL_CAP_MET" => store' = store
     /\ (IsCall("both") /\ program = "v4") =>
          LET g == ValueOf(store, last'.keys[1])
              u == ValueOf(store, last'.keys[2])
          IN /\ (last'.ret = "FAIL_GLOBAL_CAP_MET") <=> (g >= last'.argv[1])
             /\ (last'.ret = "FAIL_USER_CAP_MET")
                  <=> (g < last'.argv[1] /\ u >= last'.argv[2])
             /\ last'.ret # "SUCCESS" => store' = store]_vars

C7_Witness ==
  /\ program = "v4"
  /\ last.ret = "FAIL_GLOBAL_CAP_MET"
  /\ ValueOf(store, last.keys[2]) >= last.argv[2]
  /\ store # <<>>

\* C8: a denied claim through ATOMIC_INCR_THEN_CHECK_BOTH_LUA leaves the
\* values of the global cell and of the user cell as they were, for both
\* denial outcomes; a denied ATOMIC_INCR_THEN_CHECK_SINGLE_LUA claim leaves
\* its cell's value as it was.
C8_DenialNetZero ==
  [][(IsCall("both") \/ IsCall("single")) /\ last'.ret # "SUCCESS"
     => \A k \in KeysOf(last') : ValueOf(store', k) = ValueOf(store, k)]_vars

C8_Witness ==
  /\ program = "multi_node_locust"
  /\ last.script = "both"
  /\ last.ret = "FAIL_GLOBAL_CAP_MET"
  /\ ValueOf(store, last.keys[1]) = last.argv[1]
  /\ ValueOf(store, last.keys[2]) = 0

C3_CapInvariantOneByOne ==
  \A o \in ALL_OFFER_IDS, d \in Days :
    /\ HasGlobalCap(o) => OfferGrants(o, d) <= GlobalCapOf(o)
    /\ HasUserCap(o) => \A u \in Users : UserGrants(u, o, d) <= UserCapOf(o)

\* the step is a store call of a client in the middle of a claim
IsStoreCall == claims' # claims \/ proc' # proc

\* C4: in locust_v3 and claim_offers_flexible, once the global cell of a
\* BOTH offer has reached global_cap no further claim of the offer is
\* granted and the cell keeps its value, and no step is a plain INCR of a
\* cap-governing cell.
C4_NoGrantBeyondGlobalCap ==
  [][/\ \A o \in BothOffers, d \in Days :
          ValueOf(store, GlobalKeyPlain(o, d)) >= GlobalCapOf(o)
            => /\ ValueOf(store', GlobalKeyPlain(o, d))
                    = ValueOf(store, GlobalKeyPlain(o, d))
               /\ OfferGrants(o, d)' = OfferGrants(o, d)
     /\ ~(IsStoreCall /\ last'.script = "INCR")]_vars

CheckThenIncrScripts == {"both", "single", "check_and_incr"}

\* the expireAt argument of a script call
ExpireAtOf(call) == call.argv[Len(call.argv)]

\* C10: a call of ATOMIC_CLAIM_SINGLE_KEY_LUA, ATOMIC_CLAIM_BOTH_LUA or
\* ATOMIC_CHECK_AND_INCR_LUA sets the expiry of a key to the expireAt it was
\* given exactly when its increment brought the key to 1; in every other
\* case, granted or denied, the stored expiry of the key is unchanged.
C10_ExpirySetOnce ==
  [][IsStoreCall /\ last'.script \in CheckThenIncrScripts
     => \A k \in KeysOf(last') :
          IF ValueOf(store, k) = 0 /\ ValueOf(store', k) = 1
            THEN ExpiryOf(store', k) = ExpireAtOf(last')
            ELSE ExpiryOf(store', k) = ExpiryOf(store, k)]_vars

C10_Witness ==
  /\ program = "locust_iterative_atomic"
  /\ last.script = "check_and_incr"
  /\ last.ret = "SUCCESS"
  /\ ValueOf(store, last.keys[1]) = 2
  /\ ExpiryOf(store, last.keys[1]) # NoExpiry
  /\ ExpiryOf(store, last.keys[1]) # ExpireAtOf(last)

\* C11: after any sequence of claims through the increment-then-check
\* scripts every key that exists in the store has an expiry, also a key
\* created by the increment of a claim that was then denied and compensated.
C11_EveryKeyHasExpiry ==
  \A k \in DOMAIN store : ExpiryOf(store, k) # NoExpiry

\* C12: in _claim_offers_one_by_one the expiry of a cell is set only by the
\* grant that creates the cell: once a key has an expiry, no later step of
\* any client changes it.
C12_OneByOneExpirySetOnce ==
  [][\A k \in DOMAIN store :
       ExpiryOf(store, k) # NoExpiry => ExpiryOf(store', k) = ExpiryOf(store, k)]_vars

\* the step is a claim of offer o by user u
IsClaimOf(u, o) ==
  /\ claims' = claims + 1
  /\ Len(OutcomesOf(u, o, today)') = Len(OutcomesOf(u, o, today)) + 1

\* C20: multi_node_locust._claim_offers_in_batch dispatches on the offer
\* kind.  A GLOBAL_ONLY claim calls the script on the offer's global key
\* only and is granted exactly when that cell is below global_cap; a
\* USER_ONLY claim calls it on the claimant's user key only and is granted
\* exactly when that cell is below user_cap; a BOTH claim is one script call
\* on exactly the global key and the claimant's user key.  No other key
\* changes.
C20_DispatchByKind ==
  [][\A u \in Users, o \in ALL_OFFER_IDS :
       IsClaimOf(u, o) =>
         LET kind == OFFER_CONFIGS[o].type
             g == GlobalKeyTagged(o, today)
             k == UserKeyTagged(o, u, today)
         IN /\ kind = "GLOBAL_ONLY" =>
                 /\ last'.script = "single" /\ last'.keys = <<g>>
                 /\ last'.ret = "SUCCESS" <=> ValueOf(store, g) < GlobalCapOf(o)
            /\ kind = "USER_ONLY" =>
                 /\ last'.script = "single" /\ last'.keys = <<k>>
                 /\ last'.ret = "SUCCESS" <=> ValueOf(store, k) < UserCapOf(o)
            /\ kind = "BOTH" =>
                 /\ last'.script = "both" /\ last'.keys = <<g, k>>
                 /\ last'.ret = "SUCCESS" <=>
                      /\ ValueOf(store, g) < GlobalCapOf(o)
                      /\ ValueOf(store, k) < UserCapOf(o)
            /\ OtherCellsUnchanged(KeysOf(last'))]_vars

C20_Witness ==
  /\ program = "multi_node_locust"
  /\ last.script = "single"
  /\ last.keys = <<UserKeyTagged("oU", "u2", 1)>>
  /\ last.ret = "FAIL_CAP_MET"
  /\ ValueOf(store, UserKeyTagged("oU", "u2", 1)) = UserCapOf("oU")

\* ---- orchestrator runs ----
NoDuplicate(seq) == \A i, j \in 1..Len(seq) : i # j => seq[i] # seq[j]

HasRepeat(seq) == ~NoDuplicate(seq)

\* the run of _secure_n_offers that is under way or has returned
SecureRun == proc[Runner].pc \in {"secure", "done"}

\* C13: within one run of _secure_n_offers no offer id is handed to the claim
\* function twice, also when the candidate list repeats an id: the ids handed
\* over so far are exactly attempted_set, each of them once, and no id is
\* granted twice, so the returned set holds each granted id once.
C13_NoIdPassedTwice ==
  SecureRun =>
    LET p == proc[Runner]
    IN /\ NoDuplicate(p.passed)
       /\ Range(p.passed) = p.attempted_set
       /\ NoDuplicate(p.successes)
       /\ p.claimed_set \subseteq Range(p.successes)

\* a run over a list that names the same offer twice has handed it over once,
\* was granted it, and has returned short of its target of 2
C13_Witness ==
  /\ proc[Runner].pc = "done"
  /\ proc[Runner].candidates = <<"oB", "oB">>
  /\ proc[Runner].target = 2
  /\ proc[Runner].passed = <<"oB">>
  /\ proc[Runner].claimed_set = {"oB"}

\* the run of a streaming loop that is under way or has returned
StreamRun == proc[Runner].pc \in {"stream", "done"}

\* C14: in a run of a streaming loop (v4, opt_v2), for every candidate list,
\* also one that repeats an id, a script is called at most once for each offer
\* id and the returned grant list holds no id twice.
C14_StreamEachIdOnce ==
  StreamRun =>
    /\ NoDuplicate(proc[Runner].called)
    /\ NoDuplicate(proc[Runner].granted)

\* C15: _secure_n_offers of batch_locust and multi_node_locust returns exactly
\* the offer ids whose script returned SUCCESS during the run, whether or not
\* the target was met: each returned id was granted and has a cell this run
\* raised, each granted id is returned, and none was granted twice.
C15_ReturnsExactlyGranted ==
  (program \in {"batch_locust", "multi_node_locust"} /\ proc[Runner].pc = "done") =>
    LET p == proc[Runner]
    IN /\ p.claimed_set = Range(p.successes)
       /\ NoDuplicate(p.successes)
       /\ p.claimed_set \subseteq p.raised
       /\ Cardinality(p.claimed_set) <= p.target

\* candidates oG, oB, oU with target 2: oB was tried and denied, oG and oU
\* were granted, the run returned {oG, oU}
C15_Witness ==
  /\ program = "multi_node_locust"
  /\ proc[Runner].pc = "done"
  /\ proc[Runner].candidates = <<"oG", "oB", "oU">>
  /\ proc[Runner].target = 2
  /\ "oB" \in Range(proc[Runner].called)
  /\ proc[Runner].claimed_set = {"oG", "oU"}

\* C16: _claim_offers_pipelined_incr_first (one_node_locust) returns exactly
\* the offer ids whose own queued script replied SUCCESS, also when a batch
\* holds an id without configuration or of a kind other than BOTH.
C16_PipelinedReturnsOwnSuccess ==
  (program = "one_node_locust" /\ proc[Runner].pc = "done") =>
    proc[Runner].claimed_set = Range(proc[Runner].successes)

\* the grant set of a run: claimed_set and the grants of the batch under way
\* (_secure_n_offers), offers_to_return / granted_offers (streaming loops)
GrantSet(p) == p.claimed_set \cup Range(p.granted)

\* a step of the run under way
RunStep ==
  /\ proc[Runner].pc \in {"secure", "stream"}
  /\ proc'[Runner] # proc[Runner]

\* the grant set only grows in a step of the run and stays within the target
GrantSetGrowsBounded ==
  LET p == proc[Runner]
      q == proc'[Runner]
  IN /\ GrantSet(p) \subseteq GrantSet(q)
     /\ Cardinality(GrantSet(q)) <= q.target
     /\ Len(q.granted) <= q.target

C18_CeilingNeverBinds ==
  (program \in SecurePrograms /\ proc[Runner].pc = "done"
     /\ Cardinality(proc[Runner].claimed_set) < proc[Runner].target)
    => Range(proc[Runner].candidates) \subseteq proc[Runner].attempted_set

\* the claim function of the run takes the next offer of its list
ClaimStepOf(offer_id) ==
  /\ proc[Runner].pc \in {"secure", "stream"}
  /\ proc'[Runner] # proc[Runner]
  /\ proc'[Runner].pc = proc[Runner].pc
  /\ proc[Runner].batch_to_try # <<>>
  /\ Head(proc[Runner].batch_to_try) = offer_id

\* C19: in _claim_offers_in_batch (batch_locust, multi_node_locust) and in
\* _claim_offers_optimal_cluster (v4) a candidate id absent from OFFER_CONFIGS
\* is skipped silently: the step makes no store call and changes no cell, the
\* id does not enter the result, and the function goes on with the rest of
\* its list, all else in the run as before.
C19_AbsentOfferSkipped ==
  [][(program \in {"batch_locust", "multi_node_locust", "v4"}
        /\ ClaimStepOf(UnknownOfferId)) =>
       /\ store' = store
       /\ last' = NoCall
       /\ proc'[Runner] =
            [proc[Runner] EXCEPT !.batch_to_try = Tail(proc[Runner].batch_to_try)]
       /\ UnknownOfferId \notin GrantSet(proc'[Runner])
       /\ UnknownOfferId \notin Range(proc'[Runner].called)]_vars

\* a batch of multi_node_locust held the absent id before oB: the run called
\* a script for oB only and returned {oB}
C19_Witness ==
  /\ program = "multi_node_locust"
  /\ proc[Runner].pc = "done"
  /\ proc[Runner].passed = <<UnknownOfferId, "oB">>
  /\ proc[Runner].called = <<"oB">>
  /\ proc[Runner].claimed_set = {"oB"}

\* the cell that alone decides a claim of a single-cap offer by the runner
SingleCellOf(offer_id) ==
  IF OFFER_CONFIGS[offer_id].type = "GLOBAL_ONLY"
    THEN GlobalKeyTagged(offer_id, proc[Runner].day)
    ELSE UserKeyTagged(offer_id, Runner, proc[Runner].day)

SingleCapOf(offer_id) ==
  IF OFFER_CONFIGS[offer_id].type = "GLOBAL_ONLY"
    THEN GlobalCapOf(offer_id)
    ELSE UserCapOf(offer_id)

\* C21: in _claim_offers_in_batch of batch_locust and in
\* _claim_offers_optimal_cluster of v4, a GLOBAL_ONLY offer whose global cell
\* is below global_cap and a USER_ONLY offer whose user cell is below user_cap
\* is claimed through the single-cell script and granted when it is attempted.
C21_SingleCapOfferGranted ==
  [][\A o \in ALL_OFFER_IDS \ BothOffers :
       (program \in {"batch_locust", "v4"}
          /\ ClaimStepOf(o)
          /\ ValueOf(store, SingleCellOf(o)) < SingleCapOf(o)) =>
         /\ last'.script = "single"
         /\ last'.keys = <<SingleCellOf(o)>>
         /\ last'.ret = "SUCCESS"
         /\ o \in Range(proc'[Runner].granted)]_vars

\* The part of a key the cluster hashes to pick the shard: the text of the
\* first segment in braces, the whole key when it has none.
HashTagOf(key) ==
  LET tagged == {i \in 1..Len(key) : key[i].tag}
  IN IF tagged = {}
       THEN key
       ELSE <<key[CHOOSE i \in tagged : \A j \in tagged : i <= j]>>

\* the keys the program passes to its dual-cell script for a BOTH offer
DualKeysOf(user_id, offer_id, day) ==
  IF program = "one_node_locust"
    THEN PipelinedCallOf(user_id, offer_id, day, NoExpiry).keys
    ELSE ClaimCallOf(user_id, offer_id, day, NoExpiry).keys

\* C22: the global key and the user key passed together to a dual-cell script
\* by v4, batch_locust, multi_node_locust, one_node_locust and opt_v2 carry
\* the same hash tag, the offer id, and keys of different (offer, user, day,
\* scope) are different keys.
C22_DualCellKeysColocated ==
  /\ last.script = "both" =>
       /\ Len(last.keys) = 2
       /\ HashTagOf(last.keys[1]) = HashTagOf(last.keys[2])
       /\ \E o \in BothOffers : HashTagOf(last.keys[1]) = <<Tag(o)>>
  /\ \A o1, o2 \in BothOffers, u1, u2 \in Users, d1, d2 \in Days :
       LET k1 == DualKeysOf(u1, o1, d1)
           k2 == DualKeysOf(u2, o2, d2)
       IN /\ HashTagOf(k1[1]) = HashTagOf(k1[2])
          /\ k1[1] # k2[2]
          /\ k1[1] = k2[1] <=> (o1 = o2 /\ d1 = d2)
          /\ k1[2] = k2[2] <=> (o1 = o2 /\ u1 = u2 /\ d1 = d2)

\* one_node_locust has called its dual-cell script on the second day
C22_Witness ==
  /\ program = "one_node_locust"
  /\ today = 2
  /\ last.script = "both"
  /\ last.keys = <<GlobalKeyOfferTagged("oB", 2), UserKeyOfferTagged("oB", "u2", 2)>>
  /\ last.ret = "SUCCESS"

\* C23: every call of the batch scripts of locust_v2 and script_v1 passes keys
\* that all carry one and the same hash tag.
C23_BatchKeysColocated ==
  last.script \in {"batch", "grant_available"} =>
    \A k1, k2 \in KeysOf(last) : HashTagOf(k1) = HashTagOf(k2)

\* the positions of the offers of kind USER_ONLY in a call of the batch script
UserOnlyIndices(call) ==
  {i \in 1..(Len(call.keys) \div 2) :
     \E o \in ALL_OFFER_IDS :
       /\ OFFER_CONFIGS[o].type = "USER_ONLY"
       /\ call.keys[(i * 2) - 1] = GlobalKeyPlain(o, today)}

\* C30: in locust_v2.claim_offer_bundle_task a claim of a USER_ONLY offer
\* reads and increments only the claimant's user cell and is decided by
\* user_cap alone: it leaves the offer's global key as it was, and it is
\* granted exactly when the user cell is below user_cap (and the grant limit
\* of the call has not cut the batch short).
C30_UserOnlyDecidedByUserCap ==
  [][(program = "locust_v2" /\ IsCall("batch")) =>
       \A i \in UserOnlyIndices(last') :
         LET offer_key == last'.keys[(i * 2) - 1]
             user_key == last'.keys[i * 2]
             user_cap == last'.argv[i * 2]
             grant_limit == last'.argv[Len(last'.argv) - 1]
             granted == offer_key \in Range(last'.ret)
         IN /\ GET(store', offer_key) = GET(store, offer_key)
            /\ granted => ValueOf(store, user_key) < user_cap
            /\ (ValueOf(store, user_key) < user_cap /\ Len(last'.ret) < grant_limit)
                 => granted]_vars

\* clients of opt_v1 whose BOTH claim for (user_id, offer_id, day) has passed
\* the user cell's call and awaits the global cell's call
AwaitingGlobal(user_id, offer_id, day) ==
  {c \in TwoClients :
     /\ proc[c].pc = "v1_global"
     /\ proc[c].user_id = user_id
     /\ proc[c].offer_id = offer_id
     /\ proc[c].day = day}

\* C25: a BOTH claim of opt_v1 is indivisible with respect to other
\* claimants: no claim of a (user, offer) is denied on the user cap because
\* of the provisional increment of a claim that ends denied.  Whenever a
\* claim has been denied on the user cap, the user's committed grants plus
\* the claims that may still be granted reach user_cap.
C25_BothClaimIndivisible ==
  program = "opt_v1" =>
    \A u \in Users, o \in BothOffers, d \in Days :
      CountOf(OutcomesOf(u, o, d), "FAIL_USER_CAP_MET") > 0 =>
        UserGrants(u, o, d) + Cardinality(AwaitingGlobal(u, o, d))
          >= UserCapOf(o)

\* C27: no counter cell ever holds a value below zero, neither after the
\* DECRs inside the scripts nor after opt_v1's client-side decr of the user
\* cell, also when a key expires between the steps of a claim.
C27_NoCellBelowZero ==
  \A k \in DOMAIN store : store[k].val >= 0

\* the step is a store call of the run that raised RedisError
FailedCall(offer_id) ==
  /\ last'.ret = "RedisError"
  /\ last' # last \/ proc'[Runner] # proc[Runner]
  /\ offer_id = IF proc[Runner].pending # NoOffer
                  THEN proc[Runner].pending
                  ELSE Head(proc[Runner].batch_to_try)

\* the offers of the batch that come after the one being claimed
RestOfBatch(p) ==
  IF p.pending # NoOffer THEN p.batch_to_try ELSE Tail(p.batch_to_try)

C26_CountersEqualGrants ==
  (program = "locust_iterative_atomic" /\ \A u \in Users : proc[u] = Idle) =>
    \A o \in ALL_OFFER_IDS, d \in Days :
      /\ HasUserCap(o) =>
           \A u \in Users :
             ValueOf(store, UserKeyUserTagged(u, o, d)) = UserGrants(u, o, d)
      /\ HasGlobalCap(o) =>
           ValueOf(store, GlobalKeyPlain(o, d)) = OfferGrants(o, d)

\* C28: the two dual-cell strategies are interchangeable as to grants and
\* counts.  After every claim of a common sequence of claims, put to the
\* check-then-increment script and to the increment-then-check script from
\* the same cell values (an absent key read as 0), the two scripts have
\* granted the same claims and the global cell and every user cell hold the
\* same values under both.
C28_StrategiesInterchangeable ==
  program = "both_strategies" =>
    /\ last.script = "both_strategies" =>
         (last.ret[1] = "SUCCESS" <=> last.ret[2] = "SUCCESS")
    /\ \A o \in BothOffers, d \in Days :
         /\ ValueOf(store, GlobalKeyTagged(o, d))
              = ValueOf(store, GlobalKeyOfferTagged(o, d))
         /\ \A u \in Users :
              ValueOf(store, UserKeyTagged(o, u, d))
                = ValueOf(store, UserKeyOfferTagged(o, u, d))

\* a claim was granted by both scripts on a user cell that an earlier denial
\* had left present at 0 under increment-then-check and absent under
\* check-then-increment, after a denial with different replies
C28_Witness ==
  /\ program = "both_strategies"
  /\ last.script = "both_strategies"
  /\ last.ret = <<"SUCCESS", "SUCCESS">>
  /\ \E u \in Users :
       /\ last.keys[2] = UserKeyTagged("oB", u, today)
       /\ Len(OutcomesOf(u, "oB", today)) = 2
       /\ Head(OutcomesOf(u, "oB", today)) = "FAIL_GLOBAL_CAP_MET"

\* the cells of the store whose key carries a day before the current one
EarlierDayCells ==
  {k \in DOMAIN store :
     \E d \in Days : d < today /\ k[Len(k)] = Lit(DateStr(d))}

\* no claim of the offer has been made on the current day
NoClaimToday(o) == \A u \in Users : OutcomesOf(u, o, today) = <<>>

\* the first claim of offer o on a day after day 1 touches no cell of an
\* earlier day and is granted
FirstClaimOfDay(u, o) ==
  (IsClaimOf(u, o) /\ today > 1 /\ NoClaimToday(o)) =>
    /\ KeysOf(last') \cap EarlierDayCells = {}
    /\ \A k \in EarlierDayCells : k \in DOMAIN store' /\ store'[k] = store[k]
    /\ OutcomesOf(u, o, today)' = <<"SUCCESS">>

\* C29: the calendar day is part of every counter key, so rollover is a new
\* key.  In v4 and multi_node_locust a claim whose keys are derived on day
\* D+1 reads and increments cells distinct from every cell of day D, and a
\* cap met on day D never causes a denial on day D+1: the first claim of an
\* offer on day D+1 is granted.
C29_RolloverIsNewKey ==
  [][\A u \in Users, o \in ALL_OFFER_IDS :
       program \in {"v4", "multi_node_locust"} => FirstClaimOfDay(u, o)]_vars

\* C31: for every claim of v4, batch_locust, multi_node_locust and opt_v2
\* the expireAt passed to the script, computed once in on_start, is later
\* than the end of the calendar day of the key, which is derived at claim
\* time (and so later than the instant of the claim), whatever the age of
\* the client.
C31_ExpireAtAfterKeyDay ==
  [][(program \in {"v4", "batch_locust", "multi_node_locust", "opt_v2"}
        /\ (IsCall("both") \/ IsCall("single"))) =>
       ExpireAtOf(last') > TicksPerDay * (today + 1)]_vars

\* the script queued for the offer replied SUCCESS (the last one queued for
\* it when the list names the offer more than once)
QueuedScriptSucceeded(p, o) ==
  \E j \in 1..Len(p.queued) :
    /\ p.queued[j] = o
    /\ p.pipeline1_results[j] = "SUCCESS"
    /\ \A k \in (j + 1)..Len(p.queued) : p.queued[k] # o

\* C33: in script_v2.claim_offers_flexible an offer id without configuration
\* is skipped and does not disturb the others.  For every list offers_to_try
\* the call completes without raising, and each configured offer of the
\* list is reported SUCCESS if and only if the script queued for that same
\* offer replied SUCCESS.
C33_UnknownOfferSkipped ==
  program = "script_v2" =>
    /\ proc[Runner].pc # "raised"
    /\ proc[Runner].pc = "returned" =>
         \A o \in Range(proc[Runner].queued) :
           /\ o \in DOMAIN proc[Runner].results_summary
           /\ proc[Runner].results_summary[o] = "SUCCESS"
                <=> QueuedScriptSucceeded(proc[Runner], o)


\* the positions of a call of the batch script whose two cells were below
\* their caps in the store s
EligibleIndices(s, call) ==
  {i \in 1..(Len(call.keys) \div 2) :
     /\ ValueOf(s, call.keys[(i * 2) - 1]) < call.argv[(i * 2) - 1]
     /\ ValueOf(s, call.keys[i * 2]) < call.argv[i * 2]}

\* the first n members of a set of positions
FirstOf(indices, n) ==
  {i \in indices : Cardinality({j \in indices : j < i}) < n}

\* the positions a call of the batch script reports as granted
GrantedIndices(call) ==
  {i \in 1..(Len(call.keys) \div 2) : call.keys[(i * 2) - 1] \in Range(call.ret)}

\* C32: one call of BATCH_CLAIM_OPTIMIZED_LUA by locust_v2 grants exactly the
\* first grant_limit offers, in candidate order, whose global count and user
\* count were both below their caps in the store before the call: never more
\* than grant_limit, never an offer whose cap was met, never a later offer in
\* place of an earlier eligible one; the reply lists the granted offers
\* once each, and both cells of a granted offer go up by exactly 1 while the
\* cells of the other offers keep their values.
C32_BatchGrantsFirstEligible ==
  [][(program = "locust_v2" /\ IsCall("batch")) =>
       LET call == last'
           grant_limit == call.argv[Len(call.argv) - 1]
           granted == GrantedIndices(call)
       IN /\ Len(call.ret) <= grant_limit
          /\ Len(call.ret) = Cardinality(granted)
          /\ granted = FirstOf(EligibleIndices(store, call), grant_limit)
          /\ \A i \in 1..(Len(call.keys) \div 2) :
               \A k \in {call.keys[(i * 2) - 1], call.keys[i * 2]} :
                 ValueOf(store', k) = ValueOf(store, k) + (IF i \in granted THEN 1 ELSE 0)
          /\ \A k \in DOMAIN store' \ KeysOf(call) :
               k \in DOMAIN store /\ store'[k] = store[k]]_vars

\* a call of three candidates with grant_limit 2 whose first candidate was
\* at its cap: it granted the second and the third
C32_Witness ==
  /\ program = "locust_v2"
  /\ last.script = "batch"
  /\ Len(last.keys) = 6
  /\ last.argv[Len(last.argv) - 1] = 2
  /\ GrantedIndices(last) = {2, 3}


\* C34: from the same cell values the check-then-increment script of v4 and
\* the increment-then-check scripts of multi_node_locust and opt_v2 reply
\* the same outcome to a dual-cell claim, the same failure code included
\* when both caps are met.
C34_SameOutcomeCode ==
  (program = "dual_scripts" /\ last.script = "dual_scripts") =>
    /\ last.ret[1] = last.ret[2]
    /\ last.ret[1] = last.ret[3]


\* C34 as the scripts have it: from the same cell values the three scripts
\* grant the same claims, and the scripts of v4 and opt_v2 reply the same
\* outcome; the script of multi_node_locust replies another outcome exactly
\* when both caps are met, FAIL_USER_CAP_MET where the other two reply
\* FAIL_GLOBAL_CAP_MET.
C34_SameDecisionCodeByOrder ==
  [][(program = "dual_scripts" /\ IsCall("dual_scripts")) =>
       LET ret == last'.ret
           global_met == ValueOf(store, last'.keys[1]) >= last'.argv[1]
           user_met == ValueOf(store, last'.keys[2]) >= last'.argv[2]
       IN /\ ret[1] = "SUCCESS" <=> ret[2] = "SUCCESS"
          /\ ret[1] = ret[3]
          /\ ret[1] # ret[2] <=> (global_met /\ user_met)
          /\ (global_met /\ user_met) =>
               /\ ret[1] = "FAIL_GLOBAL_CAP_MET"
               /\ ret[2] = "FAIL_USER_CAP_MET"]_vars

\* a claim with both caps met
C34_Witness ==
  /\ program = "dual_scripts"
  /\ last.script = "dual_scripts"
  /\ last.ret = <<"FAIL_GLOBAL_CAP_MET", "FAIL_USER_CAP_MET", "FAIL_GLOBAL_CAP_MET">>
  /\ ValueOf(store, last.keys[1]) >= last.argv[1]
  /\ ValueOf(store, last.keys[2]) >= last.argv[2]


\* the claims made of an offer on a day, whatever their outcome
OfferClaims(offer_id, day) ==
  LET cells == {c \in DOMAIN outcomes : c[2] = offer_id /\ c[3] = day}
      RECURSIVE Total(_)
      Total(S) == IF S = {} THEN 0
                  ELSE LET c == CHOOSE x \in S : TRUE
                       IN Len(outcomes[c]) + Total(S \ {c})
  IN Total(cells)

\* C35: the increments the scripts of opt_v2 leave on a cell after a denial
\* never cost a grant.  Every cell stands for min(value, cap) grants: the
\* grants of an offer on a day are the smaller of its global cell and
\* global_cap, the grants to a user the smaller of the user cell and
\* user_cap; so a claim is denied on a cell only when the grants committed
\* against it equal its cap, and the N claims of a single-cell offer on a
\* day yield min(N, cap) grants.
C35_LeftoversCostNoGrant ==
  program = "opt_v2" =>
    \A o \in ALL_OFFER_IDS, d \in Days :
      /\ HasGlobalCap(o) =>
           /\ OfferGrants(o, d)
                = Min(ValueOf(store, GlobalKeyTagged(o, d)), GlobalCapOf(o))
           /\ (\E u \in Users :
                 \E i \in DOMAIN OutcomesOf(u, o, d) :
                   OutcomesOf(u, o, d)[i]
                     = (IF o \in BothOffers THEN "FAIL_GLOBAL_CAP_MET" ELSE "FAIL_CAP_MET"))
                => OfferGrants(o, d) = GlobalCapOf(o)
      /\ HasUserCap(o) =>
           \A u \in Users :
             /\ UserGrants(u, o, d)
                  = Min(ValueOf(store, UserKeyTagged(o, u, d)), UserCapOf(o))
             /\ (\E i \in DOMAIN OutcomesOf(u, o, d) :
                   OutcomesOf(u, o, d)[i]
                     = (IF o \in BothOffers THEN "FAIL_USER_CAP_MET" ELSE "FAIL_CAP_MET"))
                  => UserGrants(u, o, d) = UserCapOf(o)
      /\ OFFER_CONFIGS[o].type = "GLOBAL_ONLY" =>
           OfferGrants(o, d) = Min(OfferClaims(o, d), GlobalCapOf(o))

\* after a denial on the user cap that left the user cell over the cap, and
\* with the global cell of the offer left over its cap by a denial, on a day
\* whose grants have reached the global cap
C35_Witness ==
  /\ program = "opt_v2"
  /\ \E o \in BothOffers, d \in Days :
       /\ ValueOf(store, GlobalKeyTagged(o, d)) > GlobalCapOf(o)
       /\ OfferGrants(o, d) = GlobalCapOf(o)
       /\ \E u \in Users :
            /\ "FAIL_GLOBAL_CAP_MET" \in Range(OutcomesOf(u, o, d))
            /\ UserGrants(u, o, d) = 0


\* the claim of offer_id for user_id with the date of day would be denied
\* in the store s
WouldBeDenied(s, user_id, offer_id, day, expire_timestamp) ==
  LET config == OFFER_CONFIGS[offer_id]
      global_call == [keys |-> <<GlobalKeyHotspot(offer_id, day)>>,
                      argv |-> <<config.global_cap, expire_timestamp>>]
      user_call == [keys |-> <<UserKeyByUser(offer_id, user_id, day)>>,
                    argv |-> <<UserCapOrDefault(config), expire_timestamp>>]
  IN IF config.type = "GLOBAL_ONLY"
       THEN ATOMIC_INCR_THEN_CHECK_SINGLE_LUA(s, global_call.keys, global_call.argv).ret
              # "SUCCESS"
       ELSE LET r == ATOMIC_INCR_THEN_CHECK_SINGLE_LUA(s, user_call.keys, user_call.argv)
            IN \/ r.ret # "SUCCESS"
               \/ ATOMIC_INCR_THEN_CHECK_SINGLE_LUA(r.store, global_call.keys,
                                                    global_call.argv).ret # "SUCCESS"

\* C36: the MGET pre-filter of _secure_n_offers_centralized_hotspot causes no
\* false denial and does not weaken the cap.  At every point of a run after
\* its MGET, an offer the filter has removed would be denied if the run
\* claimed it now; an offer the run holds as claimed was granted by the
\* claim scripts; and a run whose MGET failed has removed no offer.
C36_FilterNeverDeniesFalsely ==
  (program = "opt_v1" /\ proc[Runner].pc \in {"hotspot", "hotspot_global", "hotspot_decr"}) =>
    LET p == proc[Runner]
    IN /\ \A o \in p.capped_offer_ids :
            WouldBeDenied(store, p.user_id, o, today, p.expire_timestamp)
       /\ \A o \in p.claimed_set :
            \E d \in Days : "SUCCESS" \in Range(OutcomesOf(p.user_id, o, d))
       /\ p.mget_failed => p.filtered_offers = p.candidates


\* the keys of the claim call of the run of user_id for offer_id
RunKeysOf(user_id, offer_id) ==
  LET p == proc[user_id]
      call == ClaimCallOf(user_id, offer_id, p.day, OnStartExpireAt(p.start_day))
  IN IF call = NoCall THEN {} ELSE KeysOf(call)

\* a step of a run of _secure_n_offers with a store that may fail: the step
\* in which a call fails ends the run and leaves the cells of the offers
\* granted to the run as they are; an aborted run makes no step
AbortStep ==
  program \in {"batch_locust", "multi_node_locust"} =>
    /\ (/\ proc[Runner].pc = "secure"
        /\ proc'[Runner] # proc[Runner]
        /\ last'.ret = "RedisError") =>
         /\ proc'[Runner].pc = "aborted"
         /\ proc'[Runner].successes = proc[Runner].successes
         /\ proc'[Runner].claimed_set = proc[Runner].claimed_set
         /\ proc'[Runner].granted = proc[Runner].granted
         /\ \A o \in Range(proc[Runner].successes) :
              \A k \in RunKeysOf(Runner, o) :
                k \in DOMAIN store /\ store'[k] = store[k]
    /\ proc[Runner].pc = "aborted" =>
         \/ proc'[Runner] = proc[Runner]
         \/ /\ proc'[Runner].pc = "secure"
            /\ proc'[Runner].called = <<>>
            /\ proc'[Runner].attempts = 0

\* C37: a store failure aborts a run of _secure_n_offers of batch_locust and
\* multi_node_locust.  The step in which a call of the run fails ends the
\* run without a grant set and leaves the cells of the offers the run was
\* granted exactly as they are; the aborted run makes no further step, so it
\* attempts no offer again; and as long as the run stays aborted those cells
\* keep a value of at least 1.
C37_AbortKeepsIncrements ==
  /\ [](program \in {"batch_locust", "multi_node_locust"} /\ proc[Runner].pc = "aborted"
          => \A o \in Range(proc[Runner].successes) :
               \A k \in RunKeysOf(Runner, o) : ValueOf(store, k) >= 1)
  /\ [][AbortStep]_vars

\* a run aborted by the failure of a call after another offer was granted
\* to it, the failed call having run its script
C37_Witness ==
  /\ program = "multi_node_locust"
  /\ proc[Runner].pc = "aborted"
  /\ proc[Runner].successes # <<>>
  /\ last.ret = "RedisError"
  /\ \E k \in KeysOf(last) : ValueOf(store, k) >= 1
  /\ \A o \in Range(proc[Runner].successes) : RunKeysOf(Runner, o) \cap KeysOf(last) = {}


\* the bounds of a run of _secure_n_offers: iterations and claim calls
RunWithinBounds ==
  program \in SecurePrograms /\ proc[Runner].pc \in {"secure", "done", "aborted"} =>
    LET p == proc[Runner]
    IN /\ p.attempts <= max_attempts(p.target)
       /\ \A o \in Range(p.called) : CountOf(p.called, o) = 1
       /\ Range(p.called) \subseteq Range(p.candidates)
       /\ Len(p.called) <= Cardinality(Range(p.candidates))

\* C38: every run of _secure_n_offers of batch_locust, multi_node_locust and
\* locust_v3 ends, provided every store call returns or raises; it makes at
\* most max_attempts iterations of its loop and at most one claim call for
\* each distinct candidate.
C38_RunTerminates ==
  /\ []RunWithinBounds
  /\ (program \in SecurePrograms /\ proc[Runner].pc = "secure")
       ~> (proc[Runner].pc \in {"done", "aborted"})

\* a multi_node_locust run that has returned after two iterations: the first
\* batch brought no grant, the offer of the second filled the target
C38_Witness ==
  /\ program = "multi_node_locust"
  /\ proc[Runner].pc = "done"
  /\ proc[Runner].attempts = 2
  /\ Len(proc[Runner].passed) = 2
  /\ Cardinality(proc[Runner].claimed_set) = proc[Runner].target
  /\ proc[Runner].claimed_set = {proc[Runner].passed[2]}

====
